---------------------------- MODULE Spec2Model ----------------------------
(***************************************************************************)
(* A model of the URL polyfill: the basic URL parser (url.ts, parse), the  *)
(* URL record and its serializer, the URL object with its attribute        *)
(* setters, and the URLSearchParams container bound to it.                 *)
(*                                                                         *)
(* Strings are sequences of one-character strings, so that the cursor of the *)
(* parser, the percent-encoders and the urlencoded codec are computed      *)
(* character by character as the code computes them.  A value that is      *)
(* null in the program is the one-element sequence Null, which no string   *)
(* can equal because its element has more than one character.              *)
(***************************************************************************)
EXTENDS Integers, Sequences, FiniteSets, TLC

VARIABLES
  url,       \* URL._url: the URL record of the object u
  list,      \* URL._query._list: the pairs of u.searchParams
  paramsUrl, \* URLSearchParams._url of u.searchParams: TRUE when it designates u
  last,      \* the operation that produced this state: [op, arg, ret, port]
  before,    \* the record and the list as they were when that operation began
  ops,       \* number of operations performed on u since construction
  searchParams, \* URL._query: the container object it designates (0: no object)
  held,      \* a reference read from u.searchParams: the object it designates
             \* (ref, 0: never read) and whether href was assigned since (resynced)
  iter,      \* an iterator over u.searchParams: its selector (kind, "none": no
             \* iterator), its _index (index), the result of its last next() (out),
             \* and what it yielded and saw since it was made
  parser,    \* a call of parse followed iteration by iteration of its loop: its
             \* arguments, its local variables and its result (ret, "idle": no call)
  copy       \* c = new URLSearchParams(u.searchParams) (made), with the pair
             \* objects that exist (heap), the ones the _list of u.searchParams
             \* and of c designate (p, c), and the pairs of c before the last
             \* operation (was)

vars == <<url, list, paramsUrl, last, before, ops, searchParams, held, iter, parser,
          copy>>

-----------------------------------------------------------------------------
(* Characters *)

\* the punctuation encodeURIComponent leaves alone
UriMark == {"-", "_", ".", "!", "~", "*", "'", "(", ")"}

\* the code units 0x20 to 0x7E in order; U+0060 names the grave accent
Ascii ==
  << " ", "!", "\"", "#", "$", "%", "&", "'", "(", ")", "*", "+", ",", "-", ".", "/",
     "0", "1", "2", "3", "4", "5", "6", "7", "8", "9", ":", ";", "<", "=", ">", "?",
     "@", "A", "B", "C", "D", "E", "F", "G", "H", "I", "J", "K", "L", "M", "N", "O",
     "P", "Q", "R", "S", "T", "U", "V", "W", "X", "Y", "Z", "[", "\\", "]", "^", "_",
     "U+0060", "a", "b", "c", "d", "e", "f", "g", "h", "i", "j", "k", "l", "m", "n", "o",
     "p", "q", "r", "s", "t", "u", "v", "w", "x", "y", "z", "{", "|", "}", "~" >>

\* the two UTF-16 code units of U+1F600: the high and the low surrogate
HighSurrogate == "U+D83D"
LowSurrogate == "U+DE00"

Chars ==
  {Ascii[i] : i \in 1..Len(Ascii)} \cup {"\t", "\n", "\r"}
    \cup {HighSurrogate, LowSurrogate}

\* c.charCodeAt(0)
CharCode ==
  [c \in Chars |->
     IF c = "\t" THEN 9
     ELSE IF c = "\n" THEN 10
     ELSE IF c = "\r" THEN 13
     ELSE IF c = HighSurrogate THEN 55357
     ELSE IF c = LowSurrogate THEN 56832
     ELSE 31 + (CHOOSE i \in 1..Len(Ascii) : Ascii[i] = c)]

\* the value of input[k] past either end of the string
EOF == "undefined"

Null == <<"null">>

ALPHA == {c \in Chars : CharCode[c] \in (65..90) \cup (97..122)}

DIGIT == {c \in Chars : CharCode[c] \in 48..57}

ALPHANUMERIC == ALPHA \cup DIGIT \cup {"+", "-", "."}

SAFE_URL_ENCODE == ALPHA \cup DIGIT \cup {"*", "-", ".", "_"}

\* the code units matched by TAB_OR_NEWLINE
TAB_OR_NEWLINE == {"\t", "\n", "\r"}

\* the code units matched by [\x00-\x1f ]
C0_CONTROL_OR_SPACE == {c \in Chars : CharCode[c] <= 32}

\* String.prototype.toLowerCase on one ASCII code unit
toLowerCase(c) ==
  IF CharCode[c] \in 65..90 THEN Ascii[CharCode[c] + 32 - 31] ELSE c

RECURSIVE LowerStr(_)
LowerStr(s) ==
  IF s = <<>> THEN <<>> ELSE <<toLowerCase(Head(s))>> \o LowerStr(Tail(s))

HexDigits ==
  <<"0", "1", "2", "3", "4", "5", "6", "7", "8", "9", "A", "B", "C", "D", "E", "F">>

\* %HH of one byte
PercentByte(n) == <<"%", HexDigits[(n \div 16) + 1], HexDigits[(n % 16) + 1]>>

\* the characters encodeURIComponent leaves alone
UriUnreserved == ALPHA \cup DIGIT \cup UriMark

\* the URIError that encodeURIComponent throws, in the place of its result
URIError == "URIError"

\* encodeURIComponent of a string of one code unit: a surrogate on its own
\* is malformed and raises the URIError
encodeURIComponent(c) ==
  IF c \in UriUnreserved THEN <<c>>
  ELSE IF CharCode[c] \in 55296..57343 THEN <<URIError>>
  ELSE PercentByte(CharCode[c])

\* the code points 0x22 0x23 0x3C 0x3E 0x3F 0x60 that percentEscape escapes
PercentEscapeSet == {34, 35, 60, 62, 63, 96}

\* the same without 0x3F, the question mark
PercentEscapeQuerySet == {34, 35, 60, 62, 96}

percentEscape(c) ==
  IF CharCode[c] > 32 /\ CharCode[c] < 127 /\ CharCode[c] \notin PercentEscapeSet
    THEN <<c>>
    ELSE encodeURIComponent(c)

percentEscapeQuery(c) ==
  IF CharCode[c] > 32 /\ CharCode[c] < 127 /\ CharCode[c] \notin PercentEscapeQuerySet
    THEN <<c>>
    ELSE encodeURIComponent(c)

-----------------------------------------------------------------------------
(* String helpers *)

\* input[k], k counted from 0
At(s, k) == IF k >= 0 /\ k < Len(s) THEN s[k + 1] ELSE EOF

\* input.slice(k)
SliceFrom(s, k) == SubSeq(s, k + 1, Len(s))

\* input.indexOf(ch): the first position of ch, from 0, or -1
IndexOf(s, ch) ==
  IF \E i \in 1..Len(s) : s[i] = ch
    THEN (CHOOSE i \in 1..Len(s) : s[i] = ch /\ \A j \in 1..(i - 1) : s[j] # ch) - 1
    ELSE -1

\* input.split(sep): the segments between the separators, empty ones kept
RECURSIVE Split(_, _)
Split(s, sep) ==
  LET i == IndexOf(s, sep)
  IN  IF i = -1 THEN <<s>>
      ELSE <<SubSeq(s, 1, i)>> \o Split(SliceFrom(s, i + 1), sep)

\* input.replace(/x/g, y) for single code units
RECURSIVE ReplaceAll(_, _, _)
ReplaceAll(s, x, y) ==
  IF s = <<>> THEN <<>>
  ELSE <<IF Head(s) = x THEN y ELSE Head(s)>> \o ReplaceAll(Tail(s), x, y)

\* input.replace(TAB_OR_NEWLINE, empty)
RECURSIVE RemoveAll(_, _)
RemoveAll(s, set) ==
  IF s = <<>> THEN <<>>
  ELSE (IF Head(s) \in set THEN <<>> ELSE <<Head(s)>>) \o RemoveAll(Tail(s), set)

\* input.replace(LEADING_OR_TRAILING_C0_CONTROL_OR_SPACE, empty)
RECURSIVE TrimLeft(_)
TrimLeft(s) ==
  IF s # <<>> /\ Head(s) \in C0_CONTROL_OR_SPACE THEN TrimLeft(Tail(s)) ELSE s

RECURSIVE TrimRight(_)
TrimRight(s) ==
  IF s # <<>> /\ s[Len(s)] \in C0_CONTROL_OR_SPACE
    THEN TrimRight(SubSeq(s, 1, Len(s) - 1))
    ELSE s

Trim(s) == TrimRight(TrimLeft(s))

\* array.join(sep)
RECURSIVE Join(_, _)
Join(segs, sep) ==
  IF segs = <<>> THEN <<>>
  ELSE IF Len(segs) = 1 THEN segs[1]
  ELSE segs[1] \o sep \o Join(Tail(segs), sep)

\* key1 < key2 on strings: comparison by code units
RECURSIVE StrLess(_, _)
StrLess(a, b) ==
  IF b = <<>> THEN FALSE
  ELSE IF a = <<>> THEN TRUE
  ELSE IF CharCode[Head(a)] < CharCode[Head(b)] THEN TRUE
  ELSE IF CharCode[Head(a)] > CharCode[Head(b)] THEN FALSE
  ELSE StrLess(Tail(a), Tail(b))

\* parseInt(buffer, 10) of a string of ASCII digits
RECURSIVE parseInt(_)
parseInt(s) ==
  IF s = <<>> THEN 0
  ELSE parseInt(SubSeq(s, 1, Len(s) - 1)) * 10 + (CharCode[s[Len(s)]] - 48)

\* the decimal string of a port number
RECURSIVE NumToStr(_)
NumToStr(n) ==
  IF n < 10 THEN <<Ascii[n + 17]>>
  ELSE NumToStr(n \div 10) \o <<Ascii[(n % 10) + 17]>>

-----------------------------------------------------------------------------
(* encode.ts: the urlencoded codec *)

\* parseSequence without the replacement of the plus signs
parseSequence_plus_kept(sequence) ==
  LET equalsIndex == IndexOf(sequence, "=")
  IN  IF equalsIndex # -1
        THEN <<SubSeq(sequence, 1, equalsIndex), SliceFrom(sequence, equalsIndex + 1)>>
        ELSE <<sequence, <<>>>>

\* one iteration of the loop of parseUrlEncoded over a non-empty sequence
parseSequence(sequence) ==
  LET equalsIndex == IndexOf(sequence, "=")
      name  == IF equalsIndex # -1 THEN SubSeq(sequence, 1, equalsIndex) ELSE sequence
      value == IF equalsIndex # -1 THEN SliceFrom(sequence, equalsIndex + 1) ELSE <<>>
  IN  <<ReplaceAll(name, "+", " "), ReplaceAll(value, "+", " ")>>

RECURSIVE parseSequences(_)
parseSequences(sequences) ==
  IF sequences = <<>> THEN <<>>
  ELSE (IF Head(sequences) = <<>> THEN <<>> ELSE <<parseSequence(Head(sequences))>>)
       \o parseSequences(Tail(sequences))

parseUrlEncoded(input) == parseSequences(Split(input, "&"))

serializeUrlEncodedByte(byte) ==
  IF byte = " " THEN <<"+">>
  ELSE IF byte \in SAFE_URL_ENCODE THEN <<byte>>
  ELSE percentEscape(byte)

RECURSIVE serializeUrlEncodedBytes(_)
serializeUrlEncodedBytes(input) ==
  IF input = <<>> THEN <<>>
  ELSE serializeUrlEncodedByte(Head(input)) \o serializeUrlEncodedBytes(Tail(input))

RECURSIVE serializeUrlEncoded(_)
serializeUrlEncoded(tuples) ==
  IF tuples = <<>> THEN <<>>
  ELSE LET n    == Len(tuples)
           rest == serializeUrlEncoded(SubSeq(tuples, 1, n - 1))
       IN  rest \o (IF n > 1 THEN <<"&">> ELSE <<>>)
                \o serializeUrlEncodedBytes(tuples[n][1]) \o <<"=">>
                \o serializeUrlEncodedBytes(tuples[n][2])

-----------------------------------------------------------------------------
(* host.ts *)

DOMAIN_OR_IPV4 == 0
IPV6 == 1
OPAQUE == 2

\* a Host object of the given HostType
HostObj(type, payload) == [kind |-> "object", type |-> type, payload |-> payload]

\* the host that is the empty string
EmptyHost == [kind |-> "empty", type |-> -1, payload |-> <<>>]

\* the host null
NullHost == [kind |-> "null", type |-> -1, payload |-> <<>>]

\* the value undefined returned by parseHost for failure
HostFailure == [kind |-> "undefined", type |-> -1, payload |-> <<>>]

parseIPv6(input) == HostObj(IPV6, input)

RECURSIVE EscapeAll(_)
EscapeAll(input) ==
  IF input = <<>> THEN <<>> ELSE percentEscape(Head(input)) \o EscapeAll(Tail(input))

parseOpaqueHost(input) == HostObj(OPAQUE, EscapeAll(input))

parseHost(input, isSpecialUrl) ==
  IF At(input, 0) = "["
    THEN IF At(input, Len(input) - 1) # "]"
           THEN HostFailure
           ELSE parseIPv6(SubSeq(input, 2, Len(input) - 1))
  ELSE IF ~isSpecialUrl THEN parseOpaqueHost(input)
  ELSE HostObj(DOMAIN_OR_IPV4, input)

\* returns its argument: a Host object, or the empty string
serializeHost(host) == host

\* the string conversion of a Host object
ObjectObject ==
  <<"[", "o", "b", "j", "e", "c", "t", " ", "O", "b", "j", "e", "c", "t", "]">>

\* the string a value of serializeHost becomes when it is concatenated
HostToString(h) == IF h.kind = "object" THEN ObjectObject ELSE <<>>

-----------------------------------------------------------------------------
(* url.ts: the URL record and the helpers of the parser *)

S_ftp == <<"f", "t", "p">>
S_file == <<"f", "i", "l", "e">>
S_gopher == <<"g", "o", "p", "h", "e", "r">>
S_http == <<"h", "t", "t", "p">>
S_https == <<"h", "t", "t", "p", "s">>
S_ws == <<"w", "s">>
S_wss == <<"w", "s", "s">>

defaultPorts ==
  (S_ftp :> 21) @@ (S_file :> 0) @@ (S_gopher :> 70) @@ (S_http :> 80) @@
  (S_https :> 443) @@ (S_ws :> 80) @@ (S_wss :> 443)

\* the port null
NullPort == -1

\* new UrlRecord()
NewUrlRecord ==
  [scheme |-> <<>>, username |-> <<>>, password |-> <<>>, host |-> NullHost,
   port |-> NullPort, path |-> <<>>, query |-> Null, fragment |-> Null,
   cannotBeABaseURL |-> FALSE]

Seg_dot == <<".">>
Seg_pct2e == <<"%", "2", "e">>

isSingleDotPathSegment(input) ==
  input = Seg_dot \/ LowerStr(input) = Seg_pct2e

\* isDoubleDotPathSegment without the lowercasing of the input
isDoubleDotPathSegment_cased(input) ==
  \/ input = Seg_dot \o Seg_dot
  \/ input \in {Seg_dot \o Seg_pct2e, Seg_pct2e \o Seg_dot, Seg_pct2e \o Seg_pct2e}

isDoubleDotPathSegment(input) ==
  \/ input = Seg_dot \o Seg_dot
  \/ LowerStr(input) \in {Seg_dot \o Seg_pct2e, Seg_pct2e \o Seg_dot, Seg_pct2e \o Seg_pct2e}

isSpecialScheme(scheme) == scheme \in DOMAIN defaultPorts

isSpecial(u) == isSpecialScheme(u.scheme)

includesCredentials(u) == u.username # <<>> \/ u.password # <<>>

isWindowsDriveLetter(input) ==
  Len(input) = 2 /\ input[1] \in ALPHA /\ input[2] \in {":", "|"}

isNormalizedWindowsDriveLetter(input) ==
  isWindowsDriveLetter(input) /\ input[2] = ":"

startsWithWindowsDriveLetter(input, cursor) ==
  LET length == Len(input) - cursor
  IN  /\ length >= 2
      /\ isWindowsDriveLetter(SubSeq(input, cursor + 1, cursor + 2))
      /\ (length # 2 => At(input, cursor + 2) \in {"/", "\\", "?", "#"})

\* shortenPath without the exception for the drive letter
shortenPath_always(u) ==
  IF u.path = <<>> THEN u
  ELSE [u EXCEPT !.path = SubSeq(@, 1, Len(@) - 1)]

\* the record after shortenPath(url)
shortenPath(u) ==
  IF u.path = <<>> THEN u
  ELSE IF u.scheme = S_file /\ Len(u.path) = 1 /\ isNormalizedWindowsDriveLetter(u.path[1])
    THEN u
  ELSE [u EXCEPT !.path = SubSeq(@, 1, Len(@) - 1)]

\* cannotHaveUsernamePasswordPort without the test of the host
cannotHaveUsernamePasswordPort_host_ignored(u) ==
  \/ u.cannotBeABaseURL
  \/ u.scheme = S_file

cannotHaveUsernamePasswordPort(u) ==
  \/ u.host.kind \in {"null", "empty"}
  \/ u.cannotBeABaseURL
  \/ u.scheme = S_file

-----------------------------------------------------------------------------
(* url.ts: the states of the parser, numbered as the const enum numbers them *)

SCHEME_START == 0
SCHEME == 1
NO_SCHEME == 2
SPECIAL_RELATIVE_OR_AUTHORITY == 3
PATH_OR_AUTHORITY == 4
RELATIVE == 5
RELATIVE_SLASH == 6
SPECIAL_AUTHORITY_SLASHES == 7
SPECIAL_AUTHORITY_IGNORE_SLASHES == 8
AUTHORITY == 9
HOST == 10
HOSTNAME == 11
PORT == 12
FILE == 13
FILE_SLASH == 14
FILE_HOST == 15
PATH_START == 16
PATH == 17
CANNOT_BE_A_BASE_URL_PATH == 18
QUERY == 19
FRAGMENT == 20

\* the stateOverride argument when parse is called without one
Undefined == -1

\* if (stateOverride): a state override that JavaScript takes as true
Given(so) == so # Undefined /\ so # 0

\* return: the run ends with the value r ("false", "true", or "throw" for a
\* TypeError); a run that an exception of percentEscape leaves ends with "URIError"
Return(p, r) == [p EXCEPT !.ret = r]

\* the base of a run that has one
Base(p) == p.base[1]

\* WithBaseAuthority that leaves the port
WithBaseAuthority_portless(u, b) ==
  [u EXCEPT !.username = b.username, !.password = b.password, !.host = b.host]

\* url gets the username, password, host and port of base
WithBaseAuthority(u, b) ==
  [u EXCEPT !.username = b.username, !.password = b.password,
            !.host = b.host, !.port = b.port]

StSchemeStart(p, c) ==
  IF c \in ALPHA
    THEN [p EXCEPT !.buffer = Append(@, toLowerCase(c)), !.state = SCHEME]
  ELSE IF ~Given(p.so)
    THEN [p EXCEPT !.buffer = <<>>, !.state = NO_SCHEME, !.cont = TRUE]
  ELSE Return(p, "false")

StScheme(p, c) ==
  LET u == p.url IN
  IF c \in ALPHANUMERIC
    THEN [p EXCEPT !.buffer = Append(@, toLowerCase(c))]
  ELSE IF c = ":"
    THEN IF Given(p.so) /\
            ( \/ isSpecialScheme(u.scheme) /\ ~isSpecialScheme(p.buffer)
              \/ ~isSpecialScheme(u.scheme) /\ isSpecialScheme(p.buffer)
              \/ (includesCredentials(u) \/ u.port # NullPort) /\ p.buffer = S_file
              \/ u.scheme = S_file /\ u.host.kind \in {"empty", "null"} )
           THEN Return(p, "true")
         ELSE
           LET u1 == [u EXCEPT !.scheme = p.buffer] IN
           IF Given(p.so)
             THEN Return([p EXCEPT !.url =
                            IF isSpecial(u1) /\ u1.port = defaultPorts[u1.scheme]
                              THEN [u1 EXCEPT !.port = NullPort] ELSE u1], "true")
           ELSE IF u1.scheme = S_file
             THEN [p EXCEPT !.url = u1, !.buffer = <<>>, !.state = FILE]
           ELSE IF isSpecial(u1) /\ p.base # <<>> /\ Base(p).scheme = u1.scheme
             THEN [p EXCEPT !.url = u1, !.buffer = <<>>,
                            !.state = SPECIAL_RELATIVE_OR_AUTHORITY]
           ELSE IF isSpecial(u1)
             THEN [p EXCEPT !.url = u1, !.buffer = <<>>,
                            !.state = SPECIAL_AUTHORITY_SLASHES]
           ELSE IF At(p.input, p.cursor + 1) = "/"
             THEN [p EXCEPT !.url = u1, !.buffer = <<>>, !.state = PATH_OR_AUTHORITY,
                            !.cursor = @ + 1]
           ELSE [p EXCEPT !.url = [u1 EXCEPT !.cannotBeABaseURL = TRUE,
                                             !.path = Append(@, <<>>)],
                          !.buffer = <<>>, !.state = CANNOT_BE_A_BASE_URL_PATH]
  ELSE IF ~Given(p.so)
    THEN [p EXCEPT !.buffer = <<>>, !.state = NO_SCHEME, !.cursor = 0, !.cont = TRUE]
  ELSE Return(p, "false")

StNoScheme(p, c) ==
  IF p.base = <<>> \/ (Base(p).cannotBeABaseURL /\ c # "#")
    THEN Return(p, "false")
  ELSE IF Base(p).cannotBeABaseURL /\ c = "#"
    THEN [p EXCEPT !.url = [@ EXCEPT !.scheme = Base(p).scheme, !.path = Base(p).path,
                                     !.query = Base(p).query, !.fragment = <<>>,
                                     !.cannotBeABaseURL = TRUE],
                   !.state = FRAGMENT]
  ELSE IF Base(p).scheme # S_file
    THEN [p EXCEPT !.state = RELATIVE, !.cursor = @ - 1]
  ELSE [p EXCEPT !.state = FILE, !.cursor = @ - 1]

StSpecialRelativeOrAuthority(p, c) ==
  IF c = "/" /\ At(p.input, p.cursor + 1) = "/"
    THEN [p EXCEPT !.state = SPECIAL_AUTHORITY_IGNORE_SLASHES]
    ELSE [p EXCEPT !.state = RELATIVE, !.cursor = @ - 1]

StPathOrAuthority(p, c) ==
  IF c = "/"
    THEN [p EXCEPT !.state = AUTHORITY]
    ELSE [p EXCEPT !.state = PATH, !.cursor = @ - 1]

StRelative(p, c) ==
  LET b  == Base(p)
      u1 == [p.url EXCEPT !.scheme = b.scheme]
      u2 == [WithBaseAuthority(u1, b) EXCEPT !.path = b.path]
  IN  IF c = EOF
        THEN [p EXCEPT !.url = [u2 EXCEPT !.query = b.query]]
      ELSE IF c = "/"
        THEN [p EXCEPT !.url = u1, !.state = RELATIVE_SLASH]
      ELSE IF c = "?"
        THEN [p EXCEPT !.url = [u2 EXCEPT !.query = <<>>], !.state = QUERY]
      ELSE IF c = "#"
        THEN [p EXCEPT !.url = [u2 EXCEPT !.query = b.query, !.fragment = <<>>],
                       !.state = FRAGMENT]
      ELSE IF c = "\\" /\ isSpecial(u1)
        THEN [p EXCEPT !.url = u1, !.state = RELATIVE_SLASH]
      ELSE [p EXCEPT !.url = [u2 EXCEPT !.path = SubSeq(@, 1, Len(@) - 1)],
                     !.state = PATH, !.cursor = @ - 1]

StRelativeSlash(p, c) ==
  IF isSpecial(p.url) /\ (c = "/" \/ c = "\\")
    THEN [p EXCEPT !.state = SPECIAL_AUTHORITY_IGNORE_SLASHES]
  ELSE IF c = "/"
    THEN [p EXCEPT !.state = AUTHORITY]
  ELSE [p EXCEPT !.url = WithBaseAuthority(@, Base(p)), !.state = PATH,
                 !.cursor = @ - 1]

StSpecialAuthoritySlashes(p, c) ==
  IF c = "/" /\ At(p.input, p.cursor + 1) = "/"
    THEN [p EXCEPT !.state = SPECIAL_AUTHORITY_IGNORE_SLASHES, !.cursor = @ + 1]
    ELSE [p EXCEPT !.state = SPECIAL_AUTHORITY_IGNORE_SLASHES, !.cont = TRUE]

StSpecialAuthorityIgnoreSlashes(p, c) ==
  IF c # "/" /\ c # "\\"
    THEN [p EXCEPT !.state = AUTHORITY, !.cursor = @ - 1]
    ELSE p

\* AuthorityCredentials that takes every colon as the password token
RECURSIVE AuthorityCredentials_every(_, _)
AuthorityCredentials_every(buffer, acc) ==
  IF buffer = <<>> THEN acc
  ELSE LET codePoint == Head(buffer) IN
       IF codePoint = ":"
         THEN AuthorityCredentials_every(Tail(buffer), [acc EXCEPT !.flag = TRUE])
       ELSE IF acc.flag
         THEN AuthorityCredentials_every(Tail(buffer),
                [acc EXCEPT !.password = @ \o percentEscape(codePoint)])
       ELSE AuthorityCredentials_every(Tail(buffer),
                [acc EXCEPT !.username = @ \o percentEscape(codePoint)])

\* the for loop of the authority state over buffer: acc is
\* [flag |-> passwordTokenSeenFlag, username, password]
RECURSIVE AuthorityCredentials(_, _)
AuthorityCredentials(buffer, acc) ==
  IF buffer = <<>> THEN acc
  ELSE LET codePoint == Head(buffer) IN
       IF codePoint = ":" /\ ~acc.flag
         THEN AuthorityCredentials(Tail(buffer), [acc EXCEPT !.flag = TRUE])
       ELSE IF acc.flag
         THEN AuthorityCredentials(Tail(buffer),
                [acc EXCEPT !.password = @ \o percentEscape(codePoint)])
       ELSE AuthorityCredentials(Tail(buffer),
                [acc EXCEPT !.username = @ \o percentEscape(codePoint)])

\* IsTerminator that takes no backslash for a terminator
IsTerminator_slash(p, c) == c \in {EOF, "/", "?", "#"}

\* c ends the authority, the host or the port
IsTerminator(p, c) ==
  \/ c \in {EOF, "/", "?", "#"}
  \/ isSpecial(p.url) /\ c = "\\"

\* the authority state after its loop over buffer ended with acc
AtSeen(p, acc) ==
  [p EXCEPT !.seenAt = TRUE, !.passwordTokenSeenFlag = acc.flag,
            !.url = [@ EXCEPT !.username = acc.username, !.password = acc.password],
            !.buffer = <<>>]

\* StAuthority that rewinds the cursor at a terminator and stays in the
\* authority state
StAuthority_again(p, c) ==
  IF c = "@"
    THEN AtSeen(p, AuthorityCredentials(
                     IF p.seenAt THEN <<"%", "4", "0">> \o p.buffer ELSE p.buffer,
                     [flag |-> p.passwordTokenSeenFlag,
                      username |-> p.url.username, password |-> p.url.password]))
  ELSE IF IsTerminator(p, c)
    THEN IF p.seenAt /\ p.buffer = <<>>
           THEN Return(p, "false")
           ELSE [p EXCEPT !.cursor = @ - (Len(p.buffer) + 1), !.buffer = <<>>]
  ELSE [p EXCEPT !.buffer = Append(@, c)]

\* StAuthority without the failure on an empty buffer after an at sign
StAuthority_nonfatal(p, c) ==
  IF c = "@"
    THEN AtSeen(p, AuthorityCredentials(
                     IF p.seenAt THEN <<"%", "4", "0">> \o p.buffer ELSE p.buffer,
                     [flag |-> p.passwordTokenSeenFlag,
                      username |-> p.url.username, password |-> p.url.password]))
  ELSE IF IsTerminator(p, c)
    THEN [p EXCEPT !.cursor = @ - (Len(p.buffer) + 1), !.buffer = <<>>,
                   !.state = HOST]
  ELSE [p EXCEPT !.buffer = Append(@, c)]

\* StAuthority that rewinds by the length of the input and one more
StAuthority_far(p, c) ==
  IF c = "@"
    THEN AtSeen(p, AuthorityCredentials(
                     IF p.seenAt THEN <<"%", "4", "0">> \o p.buffer ELSE p.buffer,
                     [flag |-> p.passwordTokenSeenFlag,
                      username |-> p.url.username, password |-> p.url.password]))
  ELSE IF IsTerminator(p, c)
    THEN IF p.seenAt /\ p.buffer = <<>>
           THEN Return(p, "false")
           ELSE [p EXCEPT !.cursor = @ - (Len(p.input) + 1), !.buffer = <<>>,
                          !.state = HOST]
  ELSE [p EXCEPT !.buffer = Append(@, c)]

StAuthority(p, c) ==
  IF c = "@"
    THEN AtSeen(p, AuthorityCredentials(
                     IF p.seenAt THEN <<"%", "4", "0">> \o p.buffer ELSE p.buffer,
                     [flag |-> p.passwordTokenSeenFlag,
                      username |-> p.url.username, password |-> p.url.password]))
  ELSE IF IsTerminator(p, c)
    THEN IF p.seenAt /\ p.buffer = <<>>
           THEN Return(p, "false")
           ELSE [p EXCEPT !.cursor = @ - (Len(p.buffer) + 1), !.buffer = <<>>,
                          !.state = HOST]
  ELSE [p EXCEPT !.buffer = Append(@, c)]

\* HostParsed that goes on to the port state under the hostname override
HostParsed_on(p, host, next) ==
  IF host = HostFailure THEN Return(p, "false")
  ELSE IF next = PATH_START /\ Given(p.so)
    THEN Return([p EXCEPT !.url = [@ EXCEPT !.host = host], !.buffer = <<>>,
                          !.state = next], "true")
  ELSE [p EXCEPT !.url = [@ EXCEPT !.host = host], !.buffer = <<>>, !.state = next]

\* the host state once buffer is parsed to host: next is the port state
\* (at a colon) or the path start state (at a terminator)
HostParsed(p, host, next) ==
  IF host = HostFailure THEN Return(p, "false")
  ELSE IF (next = PORT /\ p.so = HOSTNAME) \/ (next = PATH_START /\ Given(p.so))
    THEN Return([p EXCEPT !.url = [@ EXCEPT !.host = host], !.buffer = <<>>,
                          !.state = next], "true")
  ELSE [p EXCEPT !.url = [@ EXCEPT !.host = host], !.buffer = <<>>, !.state = next]

\* StHost that takes every colon as the end of the host
StHost_unbracketed(p, c) ==
  IF Given(p.so) /\ p.url.scheme = S_file
    THEN [p EXCEPT !.cursor = @ - 1, !.state = FILE_HOST]
  ELSE IF c = ":"
    THEN IF p.buffer = <<>> THEN Return(p, "false")
         ELSE HostParsed(p, parseHost(p.buffer, isSpecial(p.url)), PORT)
  ELSE IF IsTerminator(p, c)
    THEN IF isSpecial(p.url) /\ p.buffer = <<>>
           THEN Return([p EXCEPT !.cursor = @ - 1], "false")
         ELSE IF Given(p.so) /\ p.buffer = <<>> /\
                 (includesCredentials(p.url) \/ p.url.port # NullPort)
           THEN Return([p EXCEPT !.cursor = @ - 1], "true")
         ELSE HostParsed([p EXCEPT !.cursor = @ - 1],
                         parseHost(p.buffer, isSpecial(p.url)), PATH_START)
  ELSE [p EXCEPT !.buffer = Append(@, c)]

StHost(p, c) ==
  IF Given(p.so) /\ p.url.scheme = S_file
    THEN [p EXCEPT !.cursor = @ - 1, !.state = FILE_HOST]
  ELSE IF c = ":" /\ ~p.seenBracket
    THEN IF p.buffer = <<>> THEN Return(p, "false")
         ELSE HostParsed(p, parseHost(p.buffer, isSpecial(p.url)), PORT)
  ELSE IF IsTerminator(p, c)
    THEN IF isSpecial(p.url) /\ p.buffer = <<>>
           THEN Return([p EXCEPT !.cursor = @ - 1], "false")
         ELSE IF Given(p.so) /\ p.buffer = <<>> /\
                 (includesCredentials(p.url) \/ p.url.port # NullPort)
           THEN Return([p EXCEPT !.cursor = @ - 1], "true")
         ELSE HostParsed([p EXCEPT !.cursor = @ - 1],
                         parseHost(p.buffer, isSpecial(p.url)), PATH_START)
  ELSE [p EXCEPT !.seenBracket = IF c = "[" THEN TRUE
                                 ELSE IF c = "]" THEN FALSE ELSE @,
                 !.buffer = Append(@, c)]

\* 2 ** 16 - 1
MaxPort == 65535

\* PortParsed without the comparison of the port with 2^16 - 1
PortParsed_unchecked(p, port) ==
  IF p.buffer # <<>>
    THEN [p EXCEPT !.port = port, !.buffer = <<>>,
                   !.url = [@ EXCEPT !.port =
                              IF isSpecial(p.url) /\ port = defaultPorts[p.url.scheme]
                                THEN NullPort ELSE port]]
  ELSE p

\* the port state at the end of the digits, port the number they denote
PortParsed(p, port) ==
  IF p.buffer # <<>> /\ port > MaxPort
    THEN Return([p EXCEPT !.port = port], "false")
  ELSE IF p.buffer # <<>>
    THEN [p EXCEPT !.port = port, !.buffer = <<>>,
                   !.url = [@ EXCEPT !.port =
                              IF isSpecial(p.url) /\ port = defaultPorts[p.url.scheme]
                                THEN NullPort ELSE port]]
  ELSE p

\* the port state after the buffer is dealt with
PortDone(q) ==
  IF q.ret # "run" THEN q
  ELSE IF Given(q.so) THEN Return(q, "true")
  ELSE [q EXCEPT !.state = PATH_START, !.cursor = @ - 1]

StPort(p, c) ==
  IF c \in DIGIT
    THEN [p EXCEPT !.buffer = Append(@, c)]
  ELSE IF IsTerminator(p, c) \/ Given(p.so)
    THEN PortDone(PortParsed(p, IF p.buffer = <<>> THEN 0 ELSE parseInt(p.buffer)))
  ELSE Return(p, "false")

StFile(p, c) ==
  LET u1 == [p.url EXCEPT !.scheme = S_file] IN
  IF c = "/" \/ c = "\\"
    THEN [p EXCEPT !.url = u1, !.state = FILE_SLASH]
  ELSE IF p.base # <<>> /\ Base(p).scheme = S_file
    THEN LET b  == Base(p)
             u2 == [u1 EXCEPT !.host = b.host, !.path = b.path]
         IN  IF c = EOF
               THEN [p EXCEPT !.url = [u2 EXCEPT !.query = b.query]]
             ELSE IF c = "?"
               THEN [p EXCEPT !.url = [u2 EXCEPT !.query = <<>>], !.state = QUERY]
             ELSE IF c = "#"
               THEN [p EXCEPT !.url = [u2 EXCEPT !.query = b.query, !.fragment = <<>>],
                              !.state = FRAGMENT]
             ELSE [p EXCEPT !.url = IF ~startsWithWindowsDriveLetter(p.input, p.cursor)
                                      THEN shortenPath(u2) ELSE u1,
                            !.state = PATH, !.cursor = @ - 1]
  ELSE [p EXCEPT !.url = u1, !.state = PATH, !.cursor = @ - 1]

StFileSlash(p, c) ==
  IF c = "/" \/ c = "\\"
    THEN [p EXCEPT !.state = FILE_HOST]
  ELSE IF p.base # <<>> /\ Base(p).scheme = S_file /\
          ~startsWithWindowsDriveLetter(p.input, p.cursor)
    THEN IF Base(p).path = <<>>
           \* isNormalizedWindowsDriveLetter(undefined) reads undefined.length
           THEN Return(p, "throw")
         ELSE IF isNormalizedWindowsDriveLetter(Base(p).path[1])
           THEN [p EXCEPT !.url = [@ EXCEPT !.path = Append(@, Base(p).path[1])],
                          !.state = PATH, !.cursor = @ - 1]
         ELSE [p EXCEPT !.url = [@ EXCEPT !.host = Base(p).host],
                        !.state = PATH, !.cursor = @ - 1]
  ELSE [p EXCEPT !.state = PATH, !.cursor = @ - 1]

\* host._domainOrAddress: a property no Host object has (host.ts names it _domain)
DomainOrAddress(host) == <<EOF>>

S_localhost == <<"l", "o", "c", "a", "l", "h", "o", "s", "t">>

\* the file host state once a non-empty buffer is parsed to host
FileHostParsed(q, host) ==
  IF host = HostFailure THEN Return(q, "false")
  ELSE IF Given(q.so)
    THEN Return([q EXCEPT !.url = [@ EXCEPT !.host =
                   IF host.kind = "object" /\ host.type = DOMAIN_OR_IPV4
                      /\ DomainOrAddress(host) = S_localhost
                     THEN EmptyHost ELSE host]], "true")
  ELSE [q EXCEPT !.url = [@ EXCEPT !.host =
                   IF host.kind = "object" /\ host.type = DOMAIN_OR_IPV4
                      /\ DomainOrAddress(host) = S_localhost
                     THEN EmptyHost ELSE host],
                 !.buffer = <<>>, !.state = PATH_START]

StFileHost(p, c) ==
  IF c \in {EOF, "/", "\\", "?", "#"}
    THEN LET q == [p EXCEPT !.cursor = @ - 1] IN
         IF ~Given(p.so) /\ isWindowsDriveLetter(p.buffer)
           THEN [q EXCEPT !.state = PATH]
         ELSE IF p.buffer = <<>>
           THEN LET r == [q EXCEPT !.url = [@ EXCEPT !.host = EmptyHost]] IN
                IF Given(p.so) THEN Return(r, "true")
                ELSE [r EXCEPT !.state = PATH_START]
         ELSE FileHostParsed(q, parseHost(p.buffer, isSpecial(p.url)))
  ELSE [p EXCEPT !.buffer = Append(@, c)]

StPathStart(p, c) ==
  IF isSpecial(p.url)
    THEN [p EXCEPT !.state = PATH,
                   !.cursor = IF c # "/" /\ c # "\\" THEN @ - 1 ELSE @]
  ELSE IF ~Given(p.so) /\ c = "?"
    THEN [p EXCEPT !.url = [@ EXCEPT !.query = <<>>], !.state = QUERY]
  ELSE IF ~Given(p.so) /\ c = "#"
    THEN [p EXCEPT !.url = [@ EXCEPT !.fragment = <<>>], !.state = FRAGMENT]
  ELSE IF c # EOF
    THEN [p EXCEPT !.state = PATH, !.cursor = IF c # "/" THEN @ - 1 ELSE @]
  ELSE p

\* while (path.length > 1 and path[0] is empty) path.shift()
RECURSIVE DropLeadingEmpty(_)
DropLeadingEmpty(path) ==
  IF Len(path) > 1 /\ path[1] = <<>> THEN DropLeadingEmpty(Tail(path)) ELSE path

\* url._path.push of the empty string, when the condition holds
AppendEmpty(u, when) == IF when THEN [u EXCEPT !.path = Append(@, <<>>)] ELSE u

\* SegmentEnded that appends a drive letter as it is written and leaves the host
SegmentEnded_verbatim(u, buffer, slashLike) ==
  IF isDoubleDotPathSegment(buffer)
    THEN AppendEmpty(shortenPath(u), ~slashLike)
  ELSE IF isSingleDotPathSegment(buffer)
    THEN AppendEmpty(u, ~slashLike)
  ELSE [u EXCEPT !.path = Append(@, buffer)]

\* SegmentEnded that keeps the host in front of a drive letter
SegmentEnded_hosted(u, buffer, slashLike) ==
  IF isDoubleDotPathSegment(buffer)
    THEN AppendEmpty(shortenPath(u), ~slashLike)
  ELSE IF isSingleDotPathSegment(buffer)
    THEN AppendEmpty(u, ~slashLike)
  ELSE IF u.scheme = S_file /\ u.path = <<>> /\ isWindowsDriveLetter(buffer)
    THEN [u EXCEPT !.path = Append(@, <<buffer[1], ":">>)]
  ELSE [u EXCEPT !.path = Append(@, buffer)]

\* steps 2 to 4 of the path state at the end of a segment: the record after
\* buffer is taken into the path; slashLike: c is a slash, or a backslash
\* in a special url
SegmentEnded(u, buffer, slashLike) ==
  IF isDoubleDotPathSegment(buffer)
    THEN AppendEmpty(shortenPath(u), ~slashLike)
  ELSE IF isSingleDotPathSegment(buffer)
    THEN AppendEmpty(u, ~slashLike)
  ELSE IF u.scheme = S_file /\ u.path = <<>> /\ isWindowsDriveLetter(buffer)
    THEN [u EXCEPT !.host = IF @.kind \notin {"empty", "null"} THEN EmptyHost ELSE @,
                   !.path = Append(@, <<buffer[1], ":">>)]
  ELSE [u EXCEPT !.path = Append(@, buffer)]

\* steps 5 to 8 of the path state at the end of a segment
PathContinues(p, c, u) ==
  [p EXCEPT !.url = [u EXCEPT !.path = IF u.scheme = S_file /\ c \in {EOF, "?", "#"}
                                         THEN DropLeadingEmpty(@) ELSE @,
                              !.query = IF c = "?" THEN <<>> ELSE @,
                              !.fragment = IF c = "#" THEN <<>> ELSE @],
            !.buffer = <<>>,
            !.state = IF c = "?" THEN QUERY ELSE IF c = "#" THEN FRAGMENT ELSE @]

StPath(p, c) ==
  IF \/ c = EOF \/ c = "/"
     \/ isSpecial(p.url) /\ c = "\\"
     \/ ~Given(p.so) /\ (c = "?" \/ c = "#")
    THEN PathContinues(p, c,
           SegmentEnded(p.url, p.buffer, c = "/" \/ (isSpecial(p.url) /\ c = "\\")))
    ELSE [p EXCEPT !.buffer = @ \o percentEscape(c)]

StCannotBeABaseUrlPath(p, c) ==
  IF c = "?"
    THEN [p EXCEPT !.url = [@ EXCEPT !.query = <<>>], !.state = QUERY]
  ELSE IF c = "#"
    THEN [p EXCEPT !.url = [@ EXCEPT !.fragment = <<>>], !.state = FRAGMENT]
  ELSE IF c # EOF
    THEN [p EXCEPT !.url = [@ EXCEPT !.path = [@ EXCEPT ![1] = @ \o percentEscape(c)]]]
  ELSE p

RECURSIVE EscapeQueryAll(_)
EscapeQueryAll(buffer) ==
  IF buffer = <<>> THEN <<>>
  ELSE percentEscapeQuery(Head(buffer)) \o EscapeQueryAll(Tail(buffer))

StQuery(p, c) ==
  IF c = EOF \/ (~Given(p.so) /\ c = "#")
    THEN LET u1 == [p.url EXCEPT !.query = @ \o EscapeQueryAll(p.buffer)] IN
         IF c = "#"
           THEN [p EXCEPT !.url = [u1 EXCEPT !.fragment = <<>>], !.buffer = <<>>,
                          !.state = FRAGMENT]
           ELSE [p EXCEPT !.url = u1, !.buffer = <<>>]
    ELSE [p EXCEPT !.buffer = Append(@, c)]

StFragment(p, c) ==
  IF c = EOF THEN p
  ELSE [p EXCEPT !.url = [@ EXCEPT !.fragment = @ \o percentEscape(c)]]

-----------------------------------------------------------------------------
(* url.ts: the loop of parse *)

\* the body of the switch for the current state on the code point c
Switch(p, c) ==
  CASE p.state = SCHEME_START -> StSchemeStart(p, c)
    [] p.state = SCHEME -> StScheme(p, c)
    [] p.state = NO_SCHEME -> StNoScheme(p, c)
    [] p.state = SPECIAL_RELATIVE_OR_AUTHORITY -> StSpecialRelativeOrAuthority(p, c)
    [] p.state = PATH_OR_AUTHORITY -> StPathOrAuthority(p, c)
    [] p.state = RELATIVE -> StRelative(p, c)
    [] p.state = RELATIVE_SLASH -> StRelativeSlash(p, c)
    [] p.state = SPECIAL_AUTHORITY_SLASHES -> StSpecialAuthoritySlashes(p, c)
    [] p.state = SPECIAL_AUTHORITY_IGNORE_SLASHES -> StSpecialAuthorityIgnoreSlashes(p, c)
    [] p.state = AUTHORITY -> StAuthority(p, c)
    [] p.state \in {HOST, HOSTNAME} -> StHost(p, c)
    [] p.state = PORT -> StPort(p, c)
    [] p.state = FILE -> StFile(p, c)
    [] p.state = FILE_SLASH -> StFileSlash(p, c)
    [] p.state = FILE_HOST -> StFileHost(p, c)
    [] p.state = PATH_START -> StPathStart(p, c)
    [] p.state = PATH -> StPath(p, c)
    [] p.state = CANNOT_BE_A_BASE_URL_PATH -> StCannotBeABaseUrlPath(p, c)
    [] p.state = QUERY -> StQuery(p, c)
    [] p.state = FRAGMENT -> StFragment(p, c)

\* the end of an iteration: cursor++ unless the state did continue or return
Advance(q) ==
  IF q.ret # "run" THEN q
  ELSE IF q.cont THEN [q EXCEPT !.cont = FALSE]
  ELSE [q EXCEPT !.cursor = @ + 1]

\* the string s holds a thrown URIError
HasError(s) == \E i \in 1..Len(s) : s[i] = URIError

\* the string s as it was built before the URIError was thrown
Cut(s) == IF HasError(s) THEN SubSeq(s, 1, IndexOf(s, URIError)) ELSE s

\* a call of percentEscape or percentEscapeQuery threw in the step that gave q
Raises(q) ==
  \/ HasError(q.buffer)
  \/ HasError(q.url.username)
  \/ HasError(q.url.password)
  \/ HasError(q.url.host.payload)
  \/ \E i \in 1..Len(q.url.path) : HasError(q.url.path[i])
  \/ HasError(q.url.query)
  \/ HasError(q.url.fragment)

\* the URIError leaves parse from the step on p that would have given q: the
\* record keeps what the loops of the authority and of the query state had
\* appended before the throw, and nothing else of the step
Thrown(p, q) ==
  [p EXCEPT !.ret = "URIError",
            !.url = [@ EXCEPT !.username = Cut(q.url.username),
                              !.password = IF HasError(q.url.username) THEN @
                                           ELSE Cut(q.url.password),
                              !.query = Cut(q.url.query)]]

\* the step that gave q from p, or the exception it raised
Caught(p, q) == IF Raises(q) THEN Thrown(p, q) ELSE q

\* one iteration of the while loop
Step(p) == Advance(Caught(p, Switch(p, At(p.input, p.cursor))))

\* while (input[cursor - 1] !== EOF || cursor === 0)
LoopCondition(p) == At(p.input, p.cursor - 1) # EOF \/ p.cursor = 0

\* the loop run to its end: ret is "url" when the loop exits and parse returns url
RECURSIVE Run(_)
Run(p) ==
  IF p.ret # "run" THEN p
  ELSE IF ~LoopCondition(p) THEN [p EXCEPT !.ret = "url"]
  ELSE Run(Step(p))

\* the parser as parse sets it up before the loop; fresh: url is not given
ParserStart(input, base, u, so, fresh) ==
  [input |-> RemoveAll(IF fresh THEN Trim(input) ELSE input, TAB_OR_NEWLINE),
   base |-> base, url |-> u, so |-> so,
   state |-> IF Given(so) THEN so ELSE SCHEME_START,
   buffer |-> <<>>, seenAt |-> FALSE, seenBracket |-> FALSE,
   passwordTokenSeenFlag |-> FALSE, cursor |-> 0,
   ret |-> "run", cont |-> FALSE, port |-> NullPort]

\* parse(input, base): a fresh record
parse(input, base) == Run(ParserStart(input, base, NewUrlRecord, Undefined, TRUE))

\* parse(input, null, url, stateOverride): url is mutated in place
parseInto(input, u, so) == Run(ParserStart(input, <<>>, u, so, FALSE))

\* the result is failure
Failed(r) == r.ret = "false"

-----------------------------------------------------------------------------
(* url.ts: the serializer and the getters of the URL object *)

serializeUrl(u, excludeFragment) ==
  <<>>
  \o u.scheme \o <<":">>
  \o (IF u.host.kind # "null"
        THEN <<"/", "/">>
             \o (IF includesCredentials(u)
                   THEN u.username
                        \o (IF u.password # <<>> THEN <<":">> \o u.password ELSE <<>>)
                        \o <<"@">>
                   ELSE <<>>)
             \o HostToString(serializeHost(u.host))
             \o (IF u.port # NullPort THEN <<":">> \o NumToStr(u.port) ELSE <<>>)
      ELSE IF u.scheme = S_file THEN <<"/", "/">> ELSE <<>>)
  \o (IF u.cannotBeABaseURL THEN u.path[1] ELSE <<"/">> \o Join(u.path, <<"/">>))
  \o (IF u.query # Null THEN <<"?">> \o u.query ELSE <<>>)
  \o (IF ~excludeFragment /\ u.fragment # Null THEN <<"#">> \o u.fragment ELSE <<>>)

href(u) == serializeUrl(u, FALSE)

get_protocol(u) == u.scheme \o <<":">>

\* the characters parse reads by index from a value serializeHost returned:
\* a host object has none, the empty host is the empty string
Indexed(h) == IF h.kind = "object" THEN <<>> ELSE h.payload

\* the host getter, as the characters a parse of its value reads
get_host(u) ==
  IF u.host.kind = "null" THEN <<>>
  ELSE IF u.port = NullPort THEN Indexed(serializeHost(u.host))
  ELSE HostToString(serializeHost(u.host)) \o <<":">> \o NumToStr(u.port)

\* the hostname getter, as the characters a parse of its value reads
get_hostname(u) ==
  IF u.host.kind = "null" THEN <<>> ELSE Indexed(serializeHost(u.host))

get_port(u) == IF u.port = NullPort THEN <<>> ELSE NumToStr(u.port)

get_pathname(u) ==
  IF u.cannotBeABaseURL THEN u.path[1]
  ELSE IF u.path = <<>> THEN <<>>
  ELSE <<"/">> \o Join(u.path, <<"/">>)

\* the searchParams getter: the container that this._query designates
get_searchParams(query) == query

get_search(u) ==
  IF u.query = Null \/ u.query = <<>> THEN <<>> ELSE <<"?">> \o u.query

get_hash(u) ==
  IF u.fragment = Null \/ u.fragment = <<>> THEN <<>> ELSE <<"#">> \o u.fragment

-----------------------------------------------------------------------------
(* search-params.ts: the list of a URLSearchParams and its update steps *)

\* toUSVString: a string without lone surrogates is returned as it is
toUSVString(s) == s

\* replaceArray(list, items): list holds exactly the items afterwards
replaceArray(old, items) == items

\* emptyParams leaving the list as it is
emptyParams_kept(l) == l

\* emptyParams: params._list.length = 0
emptyParams(l) == <<>>

setParamsQuery(l, query) == replaceArray(l, parseUrlEncoded(query))

\* newURLSearchParams(init) for a string init
newURLSearchParams(init) == setParamsQuery(<<>>, init)

\* setParamsUrl(params, url): params._url designates the URL object
setParamsUrl(bound) == TRUE

\* compareParams with the order of the names reversed
compareParams_reversed(a, b) ==
  IF a[1] = b[1] THEN 0 ELSE IF StrLess(a[1], b[1]) THEN 1 ELSE -1

compareParams(a, b) ==
  IF a[1] = b[1] THEN 0 ELSE IF StrLess(a[1], b[1]) THEN -1 ELSE 1

\* steps 2 and 3 of the update steps: the record with query as its query
QueryOrNull(u, query) == [u EXCEPT !.query = IF query = <<>> THEN Null ELSE query]

\* the update steps of a container that designates no URL
update_unbound(u, l, bound) == u

\* the update steps without step 2: an empty serialization is stored as it is
update_without_null(u, l, bound) ==
  IF ~bound THEN u ELSE [u EXCEPT !.query = serializeUrlEncoded(l)]

\* the record of the bound URL after the update steps of a container with list l
update(u, l, bound) ==
  IF ~bound THEN u ELSE QueryOrNull(u, serializeUrlEncoded(l))

sp_append(l, name, value) == Append(l, <<toUSVString(name), toUSVString(value)>>)

\* delete removing the first pair named name only
sp_delete_first(l, name) ==
  IF \A i \in 1..Len(l) : l[i][1] # name THEN l
  ELSE LET first == CHOOSE i \in 1..Len(l) :
                      l[i][1] = name /\ \A j \in 1..(i - 1) : l[j][1] # name
       IN  SubSeq(l, 1, first - 1) \o SubSeq(l, first + 1, Len(l))

RECURSIVE sp_delete(_, _)
sp_delete(l, name) ==
  IF l = <<>> THEN <<>>
  ELSE (IF Head(l)[1] = toUSVString(name) THEN <<>> ELSE <<Head(l)>>)
       \o sp_delete(Tail(l), name)

\* the loop of set giving the value to every pair named name, removing none
SetLoop_keeps(l, index, found, name, value) ==
  [l |-> [i \in 1..Len(l) |-> IF l[i][1] = name THEN <<name, value>> ELSE l[i]],
   found |-> \E i \in 1..Len(l) : l[i][1] = name]

\* the while loop of set from position index of l, found as the flag
RECURSIVE SetLoop(_, _, _, _, _)
SetLoop(l, index, found, name, value) ==
  IF index > Len(l) THEN [l |-> l, found |-> found]
  ELSE IF l[index][1] = name
    THEN IF found
           THEN SetLoop(SubSeq(l, 1, index - 1) \o SubSeq(l, index + 1, Len(l)),
                        index, found, name, value)
           ELSE SetLoop([l EXCEPT ![index] = <<name, value>>], index + 1, TRUE,
                        name, value)
  ELSE SetLoop(l, index + 1, found, name, value)

\* step 2 of set: the pair is appended when the loop found none
SetFinish(r, name, value) ==
  IF r.found THEN r.l ELSE Append(r.l, <<name, value>>)

sp_set(l, name, value) ==
  SetFinish(SetLoop(l, 1, FALSE, toUSVString(name), toUSVString(value)),
            toUSVString(name), toUSVString(value))

\* the selectors of entries(), keys() and values()
selectEntry(pair) == <<pair[1], pair[2]>>

selectKey(pair) == pair[1]

selectValue(pair) == pair[2]

\* the selector that entries(), keys() or values() gives to the iterator
Selector(kind, pair) ==
  CASE kind = "entries" -> selectEntry(pair)
    [] kind = "keys"    -> selectKey(pair)
    [] kind = "values"  -> selectValue(pair)

\* next() that never advances the index
iterator_next_stuck(l, index, kind) ==
  IF index < Len(l)
    THEN [done |-> FALSE, value |-> <<Selector(kind, l[index + 1])>>, index |-> index]
    ELSE [done |-> TRUE, value |-> <<>>, index |-> index]

\* URLSearchParamsIterator.next() on the shared list l with _index index: the
\* result (value is <<>> for undefined) and the _index afterwards
iterator_next(l, index, kind) ==
  IF index < Len(l)
    THEN [done |-> FALSE, value |-> <<Selector(kind, l[index + 1])>>,
          index |-> index + 1]
    ELSE [done |-> TRUE, value |-> <<>>, index |-> index]

\* x put into the sorted list s after every element that does not compare greater
RECURSIVE InsertSorted(_, _)
InsertSorted(s, x) ==
  IF s = <<>> THEN <<x>>
  ELSE IF compareParams(x, Head(s)) < 0 THEN <<x>> \o s
  ELSE <<Head(s)>> \o InsertSorted(Tail(s), x)

\* inplaceStableSort(list, compareParams)
RECURSIVE inplaceStableSort(_)
inplaceStableSort(l) ==
  IF l = <<>> THEN <<>>
  ELSE InsertSorted(inplaceStableSort(SubSeq(l, 1, Len(l) - 1)), l[Len(l)])

sp_sort(l) == inplaceStableSort(l)

-----------------------------------------------------------------------------
(* url.ts: the constructor and the setters of the URL object.  Each gives   *)
(* the record and the list after the call, the value parse returned (ret,   *)
(* "none" without a call of parse, "throw" for a TypeError) and the number  *)
(* the port state computed (port).                                          *)

Outcome(u, l, ret, port) == [url |-> u, list |-> l, ret |-> ret, port |-> port]

\* the outcome of a setter that ran the parser on the record in place: r is
\* the run that ended
Parsed(r, l) == Outcome(r.url, l, r.ret, r.port)

\* steps 4 to 8 of the constructor, r the run on url
Constructed(r) ==
  IF r.ret # "url" THEN Outcome(NewUrlRecord, <<>>, "throw", r.port)
  ELSE Outcome(r.url,
               newURLSearchParams(IF r.url.query = Null THEN <<>> ELSE r.url.query),
               "url", r.port)

\* steps 2 and 3 of the constructor, pb the run on base
ConstructedOn(input, pb) ==
  IF pb.ret # "url" THEN Outcome(NewUrlRecord, <<>>, "throw", pb.port)
  ELSE Constructed(parse(input, <<pb.url>>))

\* new URL(url, base); base is <<>> for undefined, else <<string>>
construct(input, base) ==
  IF base = <<>> THEN Constructed(parse(input, <<>>))
  ELSE ConstructedOn(input, parse(base[1], <<>>))

\* HrefParsed without the test of the result: the record is replaced by
\* whatever the run left and the list is emptied
HrefParsed_unchecked(u, l, r) ==
  Outcome(r.url,
          IF r.url.query # Null THEN setParamsQuery(emptyParams(l), r.url.query)
          ELSE emptyParams(l),
          IF r.ret = "url" THEN "url" ELSE "throw", r.port)

\* steps 2 to 6 of the href setter, r the run on the value
HrefParsed(u, l, r) ==
  IF Failed(r) \/ r.ret \in {"throw", "URIError"} THEN Outcome(u, l, "throw", r.port)
  ELSE Outcome(r.url,
               IF r.url.query # Null THEN setParamsQuery(emptyParams(l), r.url.query)
               ELSE emptyParams(l),
               r.ret, r.port)

set_href(u, l, v) == HrefParsed(u, l, parse(v, <<>>))

set_protocol(u, l, v) == Parsed(parseInto(v \o <<":">>, u, SCHEME_START), l)

set_username(u, l, v) ==
  IF cannotHaveUsernamePasswordPort(u) THEN Outcome(u, l, "none", NullPort)
  ELSE Outcome([u EXCEPT !.username = v], l, "none", NullPort)

set_password(u, l, v) ==
  IF cannotHaveUsernamePasswordPort(u) THEN Outcome(u, l, "none", NullPort)
  ELSE Outcome([u EXCEPT !.password = v], l, "none", NullPort)

\* the host setter without the test of the cannot-be-a-base flag
set_host_uninhibited(u, l, v) == Parsed(parseInto(v, u, HOST), l)

set_host(u, l, v) ==
  IF u.cannotBeABaseURL THEN Outcome(u, l, "none", NullPort)
  ELSE Parsed(parseInto(v, u, HOST), l)

set_hostname(u, l, v) ==
  IF u.cannotBeABaseURL THEN Outcome(u, l, "none", NullPort)
  ELSE Parsed(parseInto(v, u, HOSTNAME), l)

set_port(u, l, v) ==
  IF cannotHaveUsernamePasswordPort(u) THEN Outcome(u, l, "none", NullPort)
  ELSE IF v = <<>> THEN Outcome([u EXCEPT !.port = NullPort], l, "none", NullPort)
  ELSE Parsed(parseInto(v, u, PORT), l)

set_pathname(u, l, v) ==
  IF u.cannotBeABaseURL THEN Outcome(u, l, "none", NullPort)
  ELSE Parsed(parseInto(v, [u EXCEPT !.path = <<>>], PATH_START), l)

\* the given value with a single leading mark removed, if any
StripLeading(v, mark) == IF v # <<>> /\ Head(v) = mark THEN Tail(v) ELSE v

\* steps 6 and 7 of the search setter, r the run on the value: the list is
\* not reached when the run raised
SearchParsed(r, l, search) ==
  Parsed(r, IF r.ret = "URIError" THEN l ELSE setParamsQuery(l, search))

set_search(u, l, v) ==
  IF v = <<>> THEN Outcome([u EXCEPT !.query = Null], emptyParams(l), "none", NullPort)
  ELSE SearchParsed(parseInto(StripLeading(v, "?"), [u EXCEPT !.query = <<>>], QUERY),
                    l, StripLeading(v, "?"))

set_hash(u, l, v) ==
  IF v = <<>> THEN Outcome([u EXCEPT !.fragment = Null], l, "none", NullPort)
  ELSE Parsed(parseInto(StripLeading(v, "#"), [u EXCEPT !.fragment = <<>>], FRAGMENT), l)

-----------------------------------------------------------------------------
(* The inputs the operations are tried on *)

\* the string http://a:443/p?x=1#f
In_http == <<"h", "t", "t", "p", ":", "/", "/", "a", ":", "4", "4", "3", "/", "p", "?", "x", "=", "1", "#", "f">>

\* the string a:/x
In_nohost == <<"a", ":", "/", "x">>

\* the string mailto:x
In_mailto == <<"m", "a", "i", "l", "t", "o", ":", "x">>

\* the string file:///C:/x
In_file == <<"f", "i", "l", "e", ":", "/", "/", "/", "C", ":", "/", "x">>

\* the string file://h/x
In_filehost == <<"f", "i", "l", "e", ":", "/", "/", "h", "/", "x">>

\* the string http://a/b/../c
In_dots == <<"h", "t", "t", "p", ":", "/", "/", "a", "/", "b", "/", ".", ".", "/", "c">>

\* the string http://a/b/%2E%2e/./c/%2e
In_pctdots == <<"h", "t", "t", "p", ":", "/", "/", "a", "/", "b", "/", "%", "2", "E", "%", "2", "e", "/", ".", "/", "c", "/", "%", "2", "e">>

\* the string http://[::1]:8080/
In_ipv6 == <<"h", "t", "t", "p", ":", "/", "/", "[", ":", ":", "1", "]", ":", "8", "0", "8", "0", "/">>

\* the string a://user@/x
In_atempty == <<"a", ":", "/", "/", "u", "s", "e", "r", "@", "/", "x">>

\* the string http://a/ and U+1F600
In_path1F600 == <<"h", "t", "t", "p", ":", "/", "/", "a", "/", HighSurrogate, LowSurrogate>>

\* the string http://a/? and U+1F600
In_query1F600 == <<"h", "t", "t", "p", ":", "/", "/", "a", "/", "?", HighSurrogate, LowSurrogate>>

\* the string http://a/# and U+1F600
In_hash1F600 == <<"h", "t", "t", "p", ":", "/", "/", "a", "/", "#", HighSurrogate, LowSurrogate>>

\* the string http://u:@a/ with U+1F600 after the first colon of the authority
In_user1F600 == <<"h", "t", "t", "p", ":", "/", "/", "u", ":", HighSurrogate, LowSurrogate, "@", "a", "/">>

\* the string foo:///x with U+1F600 as the host
In_host1F600 == <<"f", "o", "o", ":", "/", "/", HighSurrogate, LowSurrogate, "/", "x">>

\* the string http://a@b:c@h/
In_ats == <<"h", "t", "t", "p", ":", "/", "/", "a", "@", "b", ":", "c", "@", "h", "/">>

\* the string http://a:b@c:d@h:81/
In_colons == <<"h", "t", "t", "p", ":", "/", "/", "a", ":", "b", "@", "c", ":", "d", "@", "h", ":", "8", "1", "/">>

\* the string http://[::1/x
In_unclosed == <<"h", "t", "t", "p", ":", "/", "/", "[", ":", ":", "1", "/", "x">>

\* the string file:///C:/../../x
In_drive == <<"f", "i", "l", "e", ":", "/", "/", "/", "C", ":", "/", ".", ".", "/", ".", ".", "/", "x">>

\* the string http://a/../b/..
In_up == <<"h", "t", "t", "p", ":", "/", "/", "a", "/", ".", ".", "/", "b", "/", ".", ".">>

\* the string file://h/C|/x
In_pipe == <<"f", "i", "l", "e", ":", "/", "/", "h", "/", "C", "|", "/", "x">>

\* the string http:\\u@a\b\..\c?d\e with single backslashes for the doubled ones
In_back == <<"h", "t", "t", "p", ":", "\\", "\\", "u", "@", "a", "\\", "b", "\\", ".", ".", "\\", "c", "?", "d", "\\", "e">>

\* the string \x\.\y#\ with single backslashes for the doubled ones
In_backrel == <<"\\", "x", "\\", ".", "\\", "y", "#", "\\">>

\* the string file:\\\C|\x with single backslashes for the doubled ones
In_backfile == <<"f", "i", "l", "e", ":", "\\", "\\", "\\", "C", "|", "\\", "x">>

\* the string file://localhost/x
In_localhost == <<"f", "i", "l", "e", ":", "/", "/", "l", "o", "c", "a", "l", "h", "o", "s", "t", "/", "x">>

\* the string file:///x
In_filex == <<"f", "i", "l", "e", ":", "/", "/", "/", "x">>

\* the string http://u:p@a:81/p/q?x=1#f
In_fullbase == <<"h", "t", "t", "p", ":", "/", "/", "u", ":", "p", "@", "a", ":", "8", "1", "/", "p", "/", "q", "?", "x", "=", "1", "#", "f">>

\* the string ?y
In_relquery == <<"?", "y">>

\* the string #g
In_relhash == <<"#", "g">>

\* the string /z
In_relslash == <<"/", "z">>

\* the string z?w#
In_relpath == <<"z", "?", "w", "#">>

\* the string foo://u:p@h:81/a?k=v
In_foo == <<"f", "o", "o", ":", "/", "/", "u", ":", "p", "@", "h", ":", "8", "1", "/", "a", "?", "k", "=", "v">>

\* the string b
In_rel == <<"b">>

\* the string http://a
In_base == <<"h", "t", "t", "p", ":", "/", "/", "a">>

\* the string http://h/?a=1&b
Href_ok == <<"h", "t", "t", "p", ":", "/", "/", "h", "/", "?", "a", "=", "1", "&", "b">>

\* the string http://h:99999/
Href_bad == <<"h", "t", "t", "p", ":", "/", "/", "h", ":", "9", "9", "9", "9", "9", "/">>

\* the string https
Proto_https == <<"h", "t", "t", "p", "s">>

\* the string b
Proto_b == <<"b">>

\* the string b://u@
Proto_auth == <<"b", ":", "/", "/", "u", "@">>

\* the string me
User_me == <<"m", "e">>

\* the string pw
Pass_pw == <<"p", "w">>

\* the string b:99999
Host_bigport == <<"b", ":", "9", "9", "9", "9", "9">>

\* the string c:81
Host_port == <<"c", ":", "8", "1">>

\* the string d
Hostname_d == <<"d">>

\* the string e:82
Hostname_port == <<"e", ":", "8", "2">>

\* the string 443
Port_443 == <<"4", "4", "3">>

\* the string 99999
Port_big == <<"9", "9", "9", "9", "9">>

\* the string /q/../r
Path_dots == <<"/", "q", "/", ".", ".", "/", "r">>

\* the string /a/b/.%2E/%2e/c
Path_pctdots == <<"/", "a", "/", "b", "/", ".", "%", "2", "E", "/", "%", "2", "e", "/", "c">>

\* the string c%20d
Path_pct == <<"c", "%", "2", "0", "d">>

\* the string s?t
Path_query == <<"s", "?", "t">>

\* the string C|/y#z
Path_drive == <<"C", "|", "/", "y", "#", "z">>

\* the string ?a b
Search_space == <<"?", "a", " ", "b">>

\* the string x+y=z=1&&=w&k
Search_pairs == <<"x", "+", "y", "=", "z", "=", "1", "&", "&", "=", "w", "&", "k">>

\* the string x=2&k=1&Z&k=3&kk&k=
Search_dups == <<"x", "=", "2", "&", "k", "=", "1", "&", "Z", "&", "k", "=", "3", "&", "k", "k", "&", "k", "=">>

\* the string #g
Hash_g == <<"#", "g">>

\* the string k
Name_k == <<"k">>

\* the string x
Name_x == <<"x">>

\* the string a b
Name_sp == <<"a", " ", "b">>

\* the string v
Value_v == <<"v">>

\* the string &
Value_amp == <<"&">>

\* the string 2
Value_2 == <<"2">>

\* the arguments (url, base) of the constructor; <<>> is no base
ConstructorInputs ==
  { <<In_http, <<>>>>, <<In_nohost, <<>>>>, <<In_mailto, <<>>>>, <<In_file, <<>>>>,
    <<In_filehost, <<>>>>, <<In_foo, <<>>>>, <<In_rel, <<In_base>>>>,
    <<In_dots, <<>>>>, <<In_pctdots, <<>>>>, <<In_ipv6, <<>>>>, <<In_pipe, <<>>>>, <<In_localhost, <<>>>>,
    <<<<>>, <<In_fullbase>>>>, <<In_relquery, <<In_fullbase>>>>,
    <<In_relhash, <<In_fullbase>>>>, <<In_relslash, <<In_fullbase>>>>,
    <<In_relpath, <<In_fullbase>>>>,
    <<In_back, <<>>>>, <<In_backrel, <<In_base>>>>, <<In_backfile, <<>>>>,
    <<In_drive, <<>>>>, <<In_up, <<>>>>,
    <<In_ats, <<>>>>, <<In_colons, <<>>>>,
    <<In_path1F600, <<>>>>, <<In_query1F600, <<>>>>, <<In_hash1F600, <<>>>>,
    <<In_user1F600, <<>>>>, <<In_host1F600, <<>>>>,
    <<In_unclosed, <<>>>>,
    <<Href_bad, <<>>>>, <<In_atempty, <<>>>>, <<In_rel, <<>>>>, <<In_rel, <<Href_bad>>>> }

Hrefs == {Href_ok, Href_bad}
Protocols == {Proto_https, Proto_b, Proto_auth}
Usernames == {User_me}
Passwords == {Pass_pw}
Hosts == {Host_bigport, Host_port}
Hostnames == {Hostname_d, Hostname_port, <<>>}
Ports == {<<>>, Port_443, Port_big}
Pathnames == {Path_dots, Path_query, Path_pctdots, Path_pct, Path_drive}
Searches == {<<>>, Search_space, Search_pairs, Search_dups}
Hashes == {<<>>, Hash_g}
AppendPairs == {<<Name_k, Value_v>>, <<Name_sp, Value_amp>>}
DeleteNames == {Name_k, Name_x}
SetPairs == {<<Name_x, Value_2>>, <<Name_k, Value_2>>}

\* the number of operations tried on a URL object after its construction
MaxOps == 2

-----------------------------------------------------------------------------
(* The URL object u and its searchParams as a state machine *)

\* no iterator was made
NoIterator ==
  [kind |-> "none", index |-> 0, prev |-> 0, out |-> [done |-> FALSE, value |-> <<>>],
   yielded |-> <<>>, mutated |-> FALSE, openLen |-> 0]

\* no call of parse is followed
NoParser == [ParserStart(<<>>, <<>>, NewUrlRecord, Undefined, TRUE) EXCEPT !.ret = "idle"]

\* new URL(url, base) with the outcome out: the URL object it returned, or no
\* object (ret is "throw") when it raised the TypeError
Constructs(input, base, out) ==
  /\ url = out.url
  /\ list = out.list
  /\ paramsUrl = setParamsUrl(FALSE)
  /\ last = [op |-> "new", arg |-> <<input>> \o base, ret |-> out.ret,
             port |-> out.port]
  /\ before = [url |-> NewUrlRecord, list |-> <<>>]
  /\ ops = 0
  /\ searchParams = (IF out.ret = "url" THEN 1 ELSE 0)
  /\ held = [ref |-> 0, resynced |-> FALSE]
  /\ iter = NoIterator
  /\ parser = NoParser

\* no container was constructed from u.searchParams
NoCopy == [made |-> FALSE, heap |-> <<>>, p |-> <<>>, c |-> <<>>, was |-> <<>>]

Init ==
  /\ \E in \in ConstructorInputs : Constructs(in[1], in[2], construct(in[1], in[2]))
  /\ copy = NoCopy

\* the state after an operation op(arg) with the outcome out, on an object
\* that the constructor returned
Becomes(op, arg, out) ==
  /\ ops < MaxOps
  /\ ~(last.op = "new" /\ last.ret = "throw")
  /\ url' = out.url
  /\ list' = out.list
  /\ last' = [op |-> op, arg |-> arg, ret |-> out.ret, port |-> out.port]
  /\ before' = [url |-> url, list |-> list]
  /\ ops' = ops + 1
  /\ held' = [held EXCEPT !.resynced = @ \/ (held.ref # 0 /\ op = "href"
                                                /\ out.ret = "url")]
  /\ iter' = [iter EXCEPT !.mutated = @ \/ (iter.kind # "none" /\ out.list # list)]
  /\ UNCHANGED <<paramsUrl, searchParams, parser, copy>>

\* the outcome of a mutation of u.searchParams that leaves the list l
Mutated(l) == Outcome(update(url, l, paramsUrl), l, "none", NullPort)

SetHref == \E v \in Hrefs : Becomes("href", <<v>>, set_href(url, list, v))

SetProtocol == \E v \in Protocols : Becomes("protocol", <<v>>, set_protocol(url, list, v))

SetUsername == \E v \in Usernames : Becomes("username", <<v>>, set_username(url, list, v))

SetPassword == \E v \in Passwords : Becomes("password", <<v>>, set_password(url, list, v))

SetHost == \E v \in Hosts : Becomes("host", <<v>>, set_host(url, list, v))

SetHostname == \E v \in Hostnames : Becomes("hostname", <<v>>, set_hostname(url, list, v))

SetPort == \E v \in Ports : Becomes("port", <<v>>, set_port(url, list, v))

SetPathname == \E v \in Pathnames : Becomes("pathname", <<v>>, set_pathname(url, list, v))

SetSearch == \E v \in Searches : Becomes("search", <<v>>, set_search(url, list, v))

SetHash == \E v \in Hashes : Becomes("hash", <<v>>, set_hash(url, list, v))

ParamsAppend ==
  \E nv \in AppendPairs : Becomes("append", nv, Mutated(sp_append(list, nv[1], nv[2])))

ParamsDelete ==
  \E n \in DeleteNames : Becomes("delete", <<n>>, Mutated(sp_delete(list, n)))

ParamsSet ==
  \E nv \in SetPairs : Becomes("set", nv, Mutated(sp_set(list, nv[1], nv[2])))

ParamsSort == Becomes("sort", <<>>, Mutated(sp_sort(list)))

Next ==
  \/ SetHref
  \/ SetProtocol
  \/ SetUsername
  \/ SetPassword
  \/ SetHost
  \/ SetHostname
  \/ SetPort
  \/ SetPathname
  \/ SetSearch
  \/ SetHash
  \/ ParamsAppend
  \/ ParamsDelete
  \/ ParamsSet
  \/ ParamsSort

Spec == Init /\ [][Next]_vars

\* a read of u.searchParams
GetSearchParams ==
  /\ searchParams # 0
  /\ held' = [ref |-> get_searchParams(searchParams), resynced |-> FALSE]
  /\ UNCHANGED <<url, list, paramsUrl, last, before, ops, searchParams, iter, parser, copy>>

\* u.searchParams.entries(), keys() or values(): a new iterator on the list
Iterate ==
  \E kind \in {"entries", "keys", "values"} :
    /\ searchParams # 0
    /\ iter.kind = "none"
    /\ iter' = [NoIterator EXCEPT !.kind = kind, !.openLen = Len(list)]
    /\ UNCHANGED <<url, list, paramsUrl, last, before, ops, searchParams, held, parser, copy>>

\* the iterator after a call of next() that returned r
Yields(r) ==
  [iter EXCEPT !.prev = iter.index, !.index = r.index,
               !.out = [done |-> r.done, value |-> r.value],
               !.yielded = @ \o r.value]

\* a call of next() on the iterator
IteratorNext ==
  /\ iter.kind # "none"
  /\ iter' = Yields(iterator_next(list, iter.index, iter.kind))
  /\ last' = [op |-> "next", arg |-> <<>>, ret |-> "none", port |-> NullPort]
  /\ before' = [url |-> url, list |-> list]
  /\ UNCHANGED <<url, list, paramsUrl, ops, searchParams, held, parser, copy>>

\* the operations that change the list, the reads of u.searchParams and the
\* iterators over it
NextLive ==
  \/ SetHref
  \/ SetSearch
  \/ ParamsAppend
  \/ ParamsDelete
  \/ ParamsSet
  \/ ParamsSort
  \/ GetSearchParams
  \/ Iterate
  \/ IteratorNext

SpecLive == Init /\ [][NextLive]_vars

-----------------------------------------------------------------------------
(* The loop of parse, one iteration at a time *)

\* the number of setters called on the record after its construction
MaxCalls == 1

\* the calls parse(input, null, url, stateOverride) of the setters: the input
\* and the state override
SetterCalls ==
  {<<v \o <<":">>, SCHEME_START>> : v \in Protocols}
    \cup {<<v, HOST>> : v \in Hosts}
    \cup {<<v, HOSTNAME>> : v \in Hostnames}
    \cup {<<v, PORT>> : v \in Ports \ {<<>>}}
    \cup {<<v, PATH_START>> : v \in Pathnames}
    \cup {<<StripLeading(v, "?"), QUERY>> : v \in Searches \ {<<>>}}
    \cup {<<StripLeading(v, "#"), FRAGMENT>> : v \in Hashes \ {<<>>}}

\* the setter of the state override so calls parse on the record u
Calls(u, so) ==
  /\ so \in {HOST, HOSTNAME, PATH_START} => ~u.cannotBeABaseURL
  /\ so = PORT => ~cannotHaveUsernamePasswordPort(u)

\* the record as the setter of the state override so hands it to parse
Prepared(u, so) ==
  IF so = PATH_START THEN [u EXCEPT !.path = <<>>]
  ELSE IF so = QUERY THEN [u EXCEPT !.query = <<>>]
  ELSE IF so = FRAGMENT THEN [u EXCEPT !.fragment = <<>>]
  ELSE u

\* new URL(url, base) enters parse: on base when it is given, else on url
InitParse ==
  \E in \in ConstructorInputs :
    /\ parser = ParserStart(IF in[2] = <<>> THEN in[1] ELSE in[2][1], <<>>,
                            NewUrlRecord, Undefined, TRUE)
    /\ last = [op |-> IF in[2] = <<>> THEN "new" ELSE "base",
               arg |-> <<in[1]>> \o in[2], ret |-> "run", port |-> NullPort]
    /\ url = NewUrlRecord
    /\ list = <<>>
    /\ paramsUrl = FALSE
    /\ before = [url |-> NewUrlRecord, list |-> <<>>]
    /\ ops = 0
    /\ searchParams = 0
    /\ held = [ref |-> 0, resynced |-> FALSE]
    /\ iter = NoIterator
    /\ copy = NoCopy

\* one iteration of the while loop of parse
ParseStep ==
  /\ parser.ret = "run"
  /\ LoopCondition(parser)
  /\ parser' = Step(parser)
  /\ UNCHANGED <<url, list, paramsUrl, last, before, ops, searchParams, held, iter, copy>>

\* the while loop ends and parse returns url
ParseReturn ==
  /\ parser.ret = "run"
  /\ ~LoopCondition(parser)
  /\ parser' = [parser EXCEPT !.ret = "url"]
  /\ UNCHANGED <<url, list, paramsUrl, last, before, ops, searchParams, held, iter, copy>>

\* step 3 of the constructor: parse on url with the parsed base
ParseOnBase ==
  /\ last.op = "base"
  /\ parser.ret = "url"
  /\ parser' = ParserStart(last.arg[1], <<parser.url>>, NewUrlRecord, Undefined, TRUE)
  /\ last' = [last EXCEPT !.op = "new"]
  /\ UNCHANGED <<url, list, paramsUrl, before, ops, searchParams, held, iter, copy>>

\* a setter of the constructed object calls parse on its record in place
ParseInPlace ==
  /\ last.op = "new"
  /\ parser.ret = "url"
  /\ ops < MaxCalls
  /\ \E call \in SetterCalls :
       /\ Calls(parser.url, call[2])
       /\ parser' = ParserStart(call[1], <<>>, Prepared(parser.url, call[2]),
                                call[2], FALSE)
       /\ last' = [last EXCEPT !.op = "set", !.arg = call]
  /\ ops' = ops + 1
  /\ UNCHANGED <<url, list, paramsUrl, before, searchParams, held, iter, copy>>

NextParse ==
  \/ ParseStep
  \/ ParseReturn
  \/ ParseOnBase
  \/ ParseInPlace

\* a call of parse runs to completion: its loop is never left waiting
SpecParse ==
  InitParse /\ [][NextParse]_vars /\ WF_vars(ParseStep) /\ WF_vars(ParseReturn)

-----------------------------------------------------------------------------
(* search-params.ts: a container constructed from u.searchParams.  The     *)
(* pairs are objects ([name, value] arrays): heap holds the pairs that      *)
(* exist, and a _list is the sequence of the positions in heap of the pairs *)
(* it designates.  The operations are the ones of sp_append, sp_delete,     *)
(* sp_set and sp_sort, on t = [heap, refs] for the _list refs.              *)

\* the number of operations tried on the two containers after the copy
MaxCopyOps == 3

\* the string http://a/?k=1&b=2&k=3
In_pairs == <<"h", "t", "t", "p", ":", "/", "/", "a", "/", "?", "k", "=", "1", "&",
              "b", "=", "2", "&", "k", "=", "3">>

CopyInputs == {In_foo, In_pairs}

\* the names and values that the _list refs reads
Deref(heap, refs) == [i \in 1..Len(refs) |-> heap[refs[i]]]

\* the name of each pair of the _list with the position of the pair in heap
Keyed(t) == [i \in 1..Len(t.refs) |-> <<t.heap[t.refs[i]][1], t.refs[i]>>]

\* the _list of the pairs of a keyed list
Unkeyed(heap, keyed) == [heap |-> heap, refs |-> [i \in 1..Len(keyed) |-> keyed[i][2]]]

\* append: a new pair object is pushed
tuples_append(t, name, value) ==
  [heap |-> Append(t.heap, <<toUSVString(name), toUSVString(value)>>),
   refs |-> Append(t.refs, Len(t.heap) + 1)]

\* delete: the pairs named name are spliced out of the _list
tuples_delete(t, name) == Unkeyed(t.heap, sp_delete(Keyed(t), name))

\* the while loop of set from position index of the _list: the first pair
\* named name gets the value written into it, the others are spliced out
RECURSIVE TupleSetLoop(_, _, _, _, _)
TupleSetLoop(t, index, found, name, value) ==
  IF index > Len(t.refs) THEN [t |-> t, found |-> found]
  ELSE IF t.heap[t.refs[index]][1] = name
    THEN IF found
           THEN TupleSetLoop([t EXCEPT !.refs = SubSeq(@, 1, index - 1)
                                                  \o SubSeq(@, index + 1, Len(@))],
                             index, found, name, value)
           ELSE TupleSetLoop([t EXCEPT !.heap[t.refs[index]][2] = value],
                             index + 1, TRUE, name, value)
  ELSE TupleSetLoop(t, index + 1, found, name, value)

\* set: the loop, then a new pair is pushed when the loop found none
tuples_set(t, name, value) ==
  IF TupleSetLoop(t, 1, FALSE, toUSVString(name), toUSVString(value)).found
    THEN TupleSetLoop(t, 1, FALSE, toUSVString(name), toUSVString(value)).t
    ELSE tuples_append(t, name, value)

\* sort: the _list is sorted in place by the names
tuples_sort(t) == Unkeyed(t.heap, inplaceStableSort(Keyed(t)))

\* new URL(input) followed by nothing yet: every pair of u.searchParams is an
\* object of its own
InitCopy ==
  /\ \E in \in CopyInputs : Constructs(in, <<>>, construct(in, <<>>))
  /\ copy = [made |-> FALSE, heap |-> list, p |-> [i \in 1..Len(list) |-> i],
             c |-> <<>>, was |-> <<>>]

\* c = new URLSearchParams(u.searchParams): c._list is u.searchParams._list.slice(),
\* the same pair objects in a new array, and c._url is not set
CopyConstruct ==
  /\ ~copy.made
  /\ copy' = [copy EXCEPT !.made = TRUE, !.c = copy.p, !.was = Deref(copy.heap, copy.p)]
  /\ last' = [op |-> "copy", arg |-> <<>>, ret |-> "none", port |-> NullPort]
  /\ before' = [url |-> url, list |-> list]
  /\ UNCHANGED <<url, list, paramsUrl, ops, searchParams, held, iter, parser>>

\* the _list of the container who: "c" for the copy, "p" for u.searchParams
ListOf(who) == [heap |-> copy.heap, refs |-> IF who = "c" THEN copy.c ELSE copy.p]

\* the state after the operation op(arg) on the container who left its _list
\* as t; the update steps write the query of u for u.searchParams only
Mutates(who, op, arg, t) ==
  /\ copy.made
  /\ ops < MaxCopyOps
  /\ copy' = [copy EXCEPT !.heap = t.heap,
                          !.p = IF who = "p" THEN t.refs ELSE @,
                          !.c = IF who = "c" THEN t.refs ELSE @,
                          !.was = Deref(copy.heap, copy.c)]
  /\ list' = Deref(t.heap, IF who = "p" THEN t.refs ELSE copy.p)
  /\ url' = IF who = "p"
              THEN update(url, Deref(t.heap, t.refs), paramsUrl)
              ELSE url
  /\ last' = [op |-> op, arg |-> <<who>> \o arg, ret |-> "none", port |-> NullPort]
  /\ before' = [url |-> url, list |-> list]
  /\ ops' = ops + 1
  /\ UNCHANGED <<paramsUrl, searchParams, held, iter, parser>>

Containers == {"c", "p"}

CopyAppend ==
  \E who \in Containers, nv \in AppendPairs :
    Mutates(who, "append", nv, tuples_append(ListOf(who), nv[1], nv[2]))

CopyDelete ==
  \E who \in Containers, n \in DeleteNames :
    Mutates(who, "delete", <<n>>, tuples_delete(ListOf(who), n))

CopySet ==
  \E who \in Containers, nv \in SetPairs :
    Mutates(who, "set", nv, tuples_set(ListOf(who), nv[1], nv[2]))

CopySort ==
  \E who \in Containers : Mutates(who, "sort", <<>>, tuples_sort(ListOf(who)))

NextCopy ==
  \/ CopyConstruct
  \/ CopyAppend
  \/ CopyDelete
  \/ CopySet
  \/ CopySort

SpecCopy == InitCopy /\ [][NextCopy]_vars

-----------------------------------------------------------------------------
(* The properties of the URL object and of its searchParams *)

Mutations == {"append", "delete", "set", "sort"}

ParsingSetters == {"protocol", "host", "hostname", "port", "pathname", "search", "hash"}

\* C1: after every append, delete, set or sort on u.searchParams the query of
\* the record of u is null when the list is empty and serializeUrlEncoded(list)
\* otherwise, so that u.search reads as the empty string or as a question mark
\* followed by the serialized list.
C1_WriteThrough ==
  last.op \in Mutations =>
    /\ url.query = (IF list = <<>> THEN Null ELSE serializeUrlEncoded(list))
    /\ get_search(url) = (IF list = <<>> THEN <<>>
                          ELSE <<"?">> \o serializeUrlEncoded(list))

\* a delete has emptied a list that held pairs, and the query became null
C1_Witness ==
  /\ last.op = "delete"
  /\ before.list # <<>>
  /\ before.url.query # Null
  /\ list = <<>>
  /\ url.query = Null

\* C2 as stated: after u.href = h succeeds, or after u.search = s, the list
\* equals the urlencoded parse of the new query of the record, and is empty
\* when the new query is null.
C2_ListIsParseOfNewQuery ==
  (last.op = "search" \/ (last.op = "href" /\ last.ret = "url")) =>
    list = (IF url.query = Null THEN <<>> ELSE parseUrlEncoded(url.query))

\* C2 amended: after u.href = h succeeds the list equals the urlencoded parse
\* of the new query of the record (empty when it is null); after u.search = s
\* the list equals the urlencoded parse of s itself with one leading question
\* mark removed (empty when s is empty), not of the percent-encoded query the
\* record then holds.
C2_Resynchronized ==
  /\ (last.op = "href" /\ last.ret = "url") =>
       list = (IF url.query = Null THEN <<>> ELSE parseUrlEncoded(url.query))
  /\ last.op = "search" =>
       list = (IF last.arg[1] = <<>> THEN <<>>
               ELSE parseUrlEncoded(StripLeading(last.arg[1], "?")))

\* search was assigned a value with a space: the query holds it percent-encoded,
\* the list holds it as written
C2_Witness ==
  /\ last.op = "search"
  /\ last.arg = <<Search_space>>
  /\ url.query = <<"a", "%", "2", "0", "b">>
  /\ list = <<<<Name_sp, <<>>>>>>

\* the pairs of a urlencoded string, read from left to right: name and value
\* are the parts of the segment read so far, seenEquals says whether its first
\* equals sign was read
RECURSIVE UrlencodedPairs(_, _, _, _)
UrlencodedPairs(s, name, value, seenEquals) ==
  IF s = <<>>
    THEN IF name = <<>> /\ value = <<>> /\ ~seenEquals THEN <<>>
         ELSE <<<<name, value>>>>
  ELSE IF Head(s) = "&"
    THEN (IF name = <<>> /\ value = <<>> /\ ~seenEquals THEN <<>>
          ELSE <<<<name, value>>>>)
         \o UrlencodedPairs(Tail(s), <<>>, <<>>, FALSE)
  ELSE IF Head(s) = "=" /\ ~seenEquals
    THEN UrlencodedPairs(Tail(s), name, value, TRUE)
  ELSE IF seenEquals
    THEN UrlencodedPairs(Tail(s), name,
                         Append(value, IF Head(s) = "+" THEN " " ELSE Head(s)), TRUE)
  ELSE UrlencodedPairs(Tail(s), Append(name, IF Head(s) = "+" THEN " " ELSE Head(s)),
                       value, FALSE)

\* C3: after u.search = s with s non-empty, iterating u.searchParams yields the
\* list of s with one leading question mark removed: split on the ampersand,
\* empty segments dropped, each segment split at its first equals sign (the
\* value empty when there is none), every plus replaced by a space, in order.
C3_SearchThenIterate ==
  (last.op = "search" /\ last.arg[1] # <<>>) =>
    list = UrlencodedPairs(IF Head(last.arg[1]) = "?" THEN Tail(last.arg[1])
                           ELSE last.arg[1], <<>>, <<>>, FALSE)

\* search was assigned x+y=z=1&&=w&k: a plus, a second equals sign, an empty
\* segment, an empty name and a segment without an equals sign
C3_Witness ==
  /\ last.op = "search"
  /\ last.arg = <<Search_pairs>>
  /\ list = << <<<<"x", " ", "y">>, <<"z", "=", "1">>>>, <<<<>>, <<"w">>>>,
               <<<<"k">>, <<>>>> >>

\* C4: whenever the parse that a protocol, host, hostname, port, pathname,
\* search or hash setter runs returns failure, every field of the record
\* equals its value before the assignment.
C4_FailedSetterKeepsRecord ==
  (last.op \in ParsingSetters /\ last.ret = "false") => url = before.url

\* the assignment u.x = u.x for an attribute x of ParsingSetters
WriteBack(x, u, l) ==
  CASE x = "protocol" -> set_protocol(u, l, get_protocol(u))
    [] x = "host"     -> set_host(u, l, get_host(u))
    [] x = "hostname" -> set_hostname(u, l, get_hostname(u))
    [] x = "port"     -> set_port(u, l, get_port(u))
    [] x = "pathname" -> set_pathname(u, l, get_pathname(u))
    [] x = "search"   -> set_search(u, l, get_search(u))
    [] x = "hash"     -> set_hash(u, l, get_hash(u))

\* C5: in every reachable state of a URL object u and for every x of protocol,
\* host, hostname, port, pathname, search and hash, the assignment u.x = u.x
\* leaves u.href unchanged.
C5_SetterIdempotence ==
  \A x \in ParsingSetters : href(WriteBack(x, url, list).url) = href(url)

\* C6: a record U that a successful parse returned (by the constructor or by
\* the href setter) is parsed back from serialize(U) without a base: the parse
\* succeeds and its record equals U field by field.
C6_RoundTrip ==
  (last.op \in {"new", "href"} /\ last.ret = "url") =>
    /\ parse(serializeUrl(url, FALSE), <<>>).ret = "url"
    /\ parse(serializeUrl(url, FALSE), <<>>).url = url

\* C11: when u.href = h is executed with an h that the parser rejects, a
\* TypeError is raised and the record of u, u.href and the list of
\* u.searchParams are as before the assignment; and the constructor raises a
\* TypeError when its url or its base fails to parse.
C11_HrefAtomic ==
  /\ (last.op = "href" /\ parse(last.arg[1], <<>>).ret = "false") =>
       /\ last.ret = "throw"
       /\ url = before.url
       /\ href(url) = href(before.url)
       /\ list = before.list
  /\ (last.op = "new" /\ Len(last.arg) = 1 /\ parse(last.arg[1], <<>>).ret = "false") =>
       last.ret = "throw"
  /\ (last.op = "new" /\ Len(last.arg) = 2 /\ parse(last.arg[2], <<>>).ret = "false") =>
       last.ret = "throw"
  /\ (last.op = "new" /\ Len(last.arg) = 2 /\ parse(last.arg[2], <<>>).ret = "url") =>
       (parse(last.arg[1], <<parse(last.arg[2], <<>>).url>>).ret = "false" =>
          last.ret = "throw")

\* href was assigned http://h:99999/ on an object whose list holds pairs: the
\* TypeError was raised and the record and the list are as they were
C11_Witness ==
  /\ last.op = "href"
  /\ last.arg = <<Href_bad>>
  /\ last.ret = "throw"
  /\ before.list # <<>>
  /\ list = before.list
  /\ url = before.url

\* C12: a protocol assignment whose scheme is not special while the current
\* scheme is special, or is special while the current scheme is not, leaves
\* the whole record, scheme included, unchanged.
C12_ProtocolBoundary ==
  (/\ last.op = "protocol"
   /\ \A i \in 1..Len(last.arg[1]) : last.arg[1][i] \in ALPHANUMERIC
   /\ isSpecialScheme(before.url.scheme) # isSpecialScheme(LowerStr(last.arg[1])))
  => url = before.url

\* C13: when the host of the URL is null or empty, or its cannot-be-a-base
\* flag is set, or its scheme is file, an assignment of username, password or
\* port leaves the whole record unchanged.
C13_CredentialsInhibited ==
  (/\ last.op \in {"username", "password", "port"}
   /\ \/ before.url.host.kind = "null"
      \/ before.url.host.kind = "empty"
      \/ before.url.cannotBeABaseURL
      \/ before.url.scheme = S_file)
  => url = before.url

\* port was assigned 443 on a record without a host that is neither
\* cannot-be-a-base nor of the file scheme, and the record is as it was
C13_Witness ==
  /\ last.op = "port"
  /\ last.arg = <<Port_443>>
  /\ before.url.host.kind = "null"
  /\ ~before.url.cannotBeABaseURL
  /\ before.url.scheme # S_file
  /\ url = before.url

\* C14: for a cannot-be-a-base URL an assignment of host, hostname or
\* pathname, with any value, leaves the whole record and therefore href
\* unchanged.
C14_CannotBeABaseInhibits ==
  (last.op \in {"host", "hostname", "pathname"} /\ before.url.cannotBeABaseURL) =>
    /\ url = before.url
    /\ href(url) = href(before.url)

\* host was assigned c:81 on the record of mailto:x, which is as it was
C14_Witness ==
  /\ last.op = "host"
  /\ last.arg = <<Host_port>>
  /\ before.url.cannotBeABaseURL
  /\ before.url.scheme = <<"m", "a", "i", "l", "t", "o">>
  /\ url = before.url
  /\ last.ret = "none"

\* the pairs of the list l whose name is not n, in their order
Others(l, n) == LET NotNamed(pair) == pair[1] # n IN SelectSeq(l, NotNamed)

\* the positions of the list l that hold a pair named n
Named(l, n) == {i \in 1..Len(l) : l[i][1] = n}

\* C15: after set(n, v), if a pair named n existed, the first such pair keeps
\* its position and has the value v, every other pair named n is removed and
\* the pairs of other names keep their values and relative order; if none
\* existed, (n, v) is appended at the end. Exactly one pair is named n.
C15_Set ==
  last.op = "set" =>
    /\ Cardinality(Named(list, last.arg[1])) = 1
    /\ \A i \in Named(list, last.arg[1]) : list[i] = <<last.arg[1], last.arg[2]>>
    /\ Others(list, last.arg[1]) = Others(before.list, last.arg[1])
    /\ Named(before.list, last.arg[1]) # {} =>
         \A i \in Named(list, last.arg[1]) :
           /\ i \in Named(before.list, last.arg[1])
           /\ \A j \in Named(before.list, last.arg[1]) : i <= j
    /\ Named(before.list, last.arg[1]) = {} =>
         list = Append(before.list, <<last.arg[1], last.arg[2]>>)

\* set(k, 2) on the list of x=2&k=1&Z&k=3&kk&k=: the first k keeps the second
\* place with the value 2 and the two later pairs named k are gone
C15_Witness ==
  /\ last.op = "set"
  /\ last.arg = <<Name_k, Value_2>>
  /\ Len(before.list) = 6
  /\ Len(list) = 4
  /\ list[2] = <<Name_k, Value_2>>
  /\ list[4][1] = <<"k", "k">>

\* the pairs of the list l whose name is n, in their order
PairsNamed(l, n) == LET IsNamed(pair) == pair[1] = n IN SelectSeq(l, IsNamed)

\* C16: sort() orders the pairs by the code-unit comparison of their names
\* only, keeps the relative order of the pairs of equal names, and changes
\* neither the multiset of the pairs nor any value.
C16_Sort ==
  last.op = "sort" =>
    /\ Len(list) = Len(before.list)
    /\ \A i, j \in 1..Len(list) : i < j => ~StrLess(list[j][1], list[i][1])
    /\ \A i \in 1..Len(before.list) :
         PairsNamed(list, before.list[i][1]) = PairsNamed(before.list, before.list[i][1])

\* sort() on the list of x=2&k=1&Z&k=3&kk&k=: Z comes first, the three pairs
\* named k follow with the values 1, 3 and empty in that order, then kk and x
C16_Witness ==
  /\ last.op = "sort"
  /\ Len(before.list) = 6
  /\ before.list[1] = <<Name_x, Value_2>>
  /\ list = << <<<<"Z">>, <<>>>>, <<Name_k, <<"1">>>>, <<Name_k, <<"3">>>>,
               <<Name_k, <<>>>>, <<<<"k", "k">>, <<>>>>, <<Name_x, Value_2>> >>

\* C17: append(n, v) adds the pair at the end of the list and delete(n)
\* removes every pair named n and no other; after either the pairs that were
\* present and remain appear in the same relative order with the same values,
\* and a pair equal to a present one is added all the same.
C17_OrderPreserved ==
  /\ last.op = "append" =>
       /\ Len(list) = Len(before.list) + 1
       /\ list[Len(list)] = <<last.arg[1], last.arg[2]>>
       /\ \A i \in 1..Len(before.list) : list[i] = before.list[i]
  /\ last.op = "delete" =>
       /\ Named(list, last.arg[1]) = {}
       /\ list = Others(before.list, last.arg[1])

\* delete(k) on the list of x=2&k=1&Z&k=3&kk&k= leaves x=2, Z and kk in
\* that order
C17_Witness ==
  /\ last.op = "delete"
  /\ last.arg = <<Name_k>>
  /\ Len(before.list) = 6
  /\ list = << <<Name_x, Value_2>>, <<<<"Z">>, <<>>>>, <<<<"k", "k">>, <<>>>> >>

\* C18: u.searchParams is the same container for the whole life of the URL
\* object u and its back-reference designates u, whatever is assigned,
\* u.href included; a reference to the container read before an assignment
\* of href reads the pairs of the new query afterwards, and its later
\* mutations write into the record u then has.
C18_BindingLifetime ==
  /\ searchParams # 0 => (searchParams = 1 /\ paramsUrl)
  /\ held.ref # 0 => held.ref = searchParams
  /\ (held.ref # 0 /\ last.op = "href" /\ last.ret = "url") =>
       list = (IF url.query = Null THEN <<>> ELSE parseUrlEncoded(url.query))
  /\ (held.resynced /\ last.op \in Mutations) =>
       url.query = (IF list = <<>> THEN Null ELSE serializeUrlEncoded(list))

\* the container was read, href was assigned, and a pair appended through
\* the reference is in the query of the record that the assignment made
C18_Witness ==
  /\ held.ref = searchParams
  /\ held.resynced
  /\ last.op = "append"
  /\ url.host.kind = "object"
  /\ url.host.payload = <<"h">>
  /\ Len(list) = 3
  /\ url.query = serializeUrlEncoded(list)
  /\ url.query # before.url.query

\* C19: next() of an iterator made by entries(), keys() or values() returns
\* the selected part of the pair that is at its index in the list as the list
\* is now, and advances, when the index is less than the length of the list,
\* and reports done otherwise; so an iterator yields every pair once, in the
\* order of the list, when the list is not changed meanwhile, and sees the
\* changes made between its calls.
C19_LiveIteration ==
  /\ last.op = "next" =>
       IF iter.prev < Len(list)
         THEN /\ ~iter.out.done
              /\ iter.out.value = <<Selector(iter.kind, list[iter.prev + 1])>>
              /\ iter.index = iter.prev + 1
         ELSE /\ iter.out.done
              /\ iter.out.value = <<>>
              /\ iter.index = iter.prev
  /\ (iter.kind # "none" /\ ~iter.mutated) =>
       /\ iter.index <= Len(list)
       /\ iter.yielded = [i \in 1..iter.index |-> Selector(iter.kind, list[i])]
       /\ iter.out.done => iter.index = Len(list)

\* an iterator over a list that has grown since it was made yields a pair at
\* a position the list did not have then
C19_Witness ==
  /\ last.op = "next"
  /\ iter.mutated
  /\ ~iter.out.done
  /\ iter.index > iter.openLen
  /\ iter.kind = "entries"
  /\ iter.out.value = <<list[iter.index]>>

\* the single-dot and the double-dot path segments, in lower case
DotSegments ==
  { <<".">>, <<"%", "2", "e">>, <<".", ".">>, <<".", "%", "2", "e">>,
    <<"%", "2", "e", ".">>, <<"%", "2", "e", "%", "2", "e">> }

\* C20: after a successful parse and after a pathname assignment no element
\* of the path of a URL that is not cannot-be-a-base is a single-dot or a
\* double-dot segment, whatever the case of its letters; each double-dot
\* removed the segment before it, so that http://a/b/../c has the pathname /c.
C20_DotSegments ==
  /\ ((last.op \in {"new", "href"} /\ last.ret = "url") \/ last.op = "pathname") =>
       (~url.cannotBeABaseURL =>
          \A i \in 1..Len(url.path) : LowerStr(url.path[i]) \notin DotSegments)
  /\ (last.op = "new" /\ last.arg = <<In_dots>>) => get_pathname(url) = <<"/", "c">>

\* new URL of http://a/b/%2E%2e/./c/%2e has the path c, empty
C20_Witness ==
  /\ last.op = "new"
  /\ last.arg = <<In_pctdots>>
  /\ last.ret = "url"
  /\ url.path = <<<<"c">>, <<>>>>

\* the serialization of a host object: its payload, in brackets when IPv6
HostText(h) ==
  IF h.type = IPV6 THEN <<"[">> \o h.payload \o <<"]">> ELSE h.payload

\* C21: an IPv6 host is stored as its payload without the brackets and is
\* serialized with the payload between [ and ]: new URL of http://[::1]:8080/
\* has the ipv6 host ::1 and the port 8080 and its href is the input again;
\* a domain-or-ipv4 host and an opaque host serialize as their payload.
C21_HostSerialized ==
  /\ (last.op = "new" /\ last.arg = <<In_ipv6>>) =>
       /\ url.host = HostObj(IPV6, <<":", ":", "1">>)
       /\ url.port = 8080
       /\ href(url) = In_ipv6
  /\ url.host.kind = "object" =>
       HostToString(serializeHost(url.host)) = HostText(url.host)

\* the string http://a/c%20d
Href_pct == In_base \o <<"/">> \o Path_pct

\* C22: a percent sign in a pathname value passes the path encoder unchanged,
\* so an escaped pathname is stored as it is; on new URL of b with the base
\* http://a, the assignment of c%20d to pathname gives the href http://a/c%20d.
C22_PercentKept ==
  (last.op = "pathname" /\ last.arg = <<Path_pct>> /\ ~before.url.cannotBeABaseURL) =>
    /\ url.path = <<Path_pct>>
    /\ before.url = construct(In_rel, <<In_base>>).url => href(url) = Href_pct

\* C23 as the specification states it: the authority terminator reached with
\* the at flag set and an empty buffer is a validation error only, so that
\* new URL of a://user@/x still produces a URL.
C23_AtEmptyNonFatal ==
  (last.op = "new" /\ last.arg = <<In_atempty>>) => last.ret = "url"

\* C23: an at sign in the authority is a validation error and the URL is
\* still produced (foo://u:p@h:81/a?k=v), but the authority terminator reached
\* with the at flag set and an empty buffer makes the parser return failure:
\* new URL of a://user@/x raises the TypeError and no URL is produced.
C23_AtEmptyFails ==
  /\ (last.op = "new" /\ last.arg = <<In_atempty>>) =>
       last.ret = "throw" /\ parse(In_atempty, <<>>).ret = "false"
  /\ (last.op = "new" /\ last.arg = <<In_foo>>) =>
       last.ret = "url" /\ url.username = <<"u">>

\* new URL of a://user@/x raised the TypeError
C23_Witness ==
  /\ last.op = "new"
  /\ last.arg = <<In_atempty>>
  /\ last.ret = "throw"

\* the escapes of the UTF-8 bytes F0 9F 98 80 of the code point U+1F600
Utf8_1F600 == PercentByte(240) \o PercentByte(159) \o PercentByte(152) \o PercentByte(128)

\* C24: percent-encoding works on code points: a parse of an input with the
\* surrogate pair of U+1F600 in the userinfo, the opaque host, the path, the
\* query or the fragment completes without raising and stores the four
\* escapes of the UTF-8 bytes of the code point.
C24_CodePoints ==
  /\ (last.op = "new" /\ last.arg = <<In_path1F600>>) =>
       last.ret = "url" /\ url.path = <<Utf8_1F600>>
  /\ (last.op = "new" /\ last.arg = <<In_query1F600>>) =>
       last.ret = "url" /\ url.query = Utf8_1F600
  /\ (last.op = "new" /\ last.arg = <<In_hash1F600>>) =>
       last.ret = "url" /\ url.fragment = Utf8_1F600
  /\ (last.op = "new" /\ last.arg = <<In_user1F600>>) =>
       last.ret = "url" /\ url.password = Utf8_1F600
  /\ (last.op = "new" /\ last.arg = <<In_host1F600>>) =>
       last.ret = "url" /\ url.host = HostObj(OPAQUE, Utf8_1F600)

\* C25: the basic URL parser terminates on every input, base and state
\* override: whatever the rewinds of the cursor, every call that is running
\* comes to a return or to the exit of the loop.
C25_Terminates == (parser.ret = "run") ~> (parser.ret # "run")

\* the parse of foo://u:p@h:81/a?k=v left the loop after the authority state
\* had rewound the cursor to the host
C25_Witness ==
  /\ parser.input = In_foo
  /\ parser.ret = "url"
  /\ parser.url.username = <<"u">>
  /\ parser.url.host = HostObj(OPAQUE, <<"h">>)
  /\ parser.cursor > Len(parser.input)

\* the fields of the record a protocol assignment has to leave alone
ProtocolFrame(u) ==
  <<u.username, u.password, u.host, u.path, u.query, u.fragment, u.cannotBeABaseURL>>

\* C26: a protocol assignment changes at most the scheme and the port of the
\* record: username, password, host, path, query, fragment and the
\* cannot-be-a-base flag are after it what they were before it.
C26_ProtocolFrame ==
  last.op = "protocol" => ProtocolFrame(url) = ProtocolFrame(before.url)

\* the part of s before the first of the characters of set, or all of s
RECURSIVE Before(_, _)
Before(s, set) ==
  IF s = <<>> \/ Head(s) \in set THEN <<>> ELSE <<Head(s)>> \o Before(Tail(s), set)

\* the part of s after the last ch, or all of s
RECURSIVE AfterLast(_, _)
AfterLast(s, ch) ==
  IF IndexOf(s, ch) = -1 THEN s ELSE AfterLast(SliceFrom(s, IndexOf(s, ch) + 1), ch)

\* the slashes of an input: a backslash is one when the scheme is special
SlashesOf(input) ==
  IF isSpecialScheme(LowerStr(Before(input, {":"}))) THEN {"/", "\\"} ELSE {"/"}

\* the authority of an input scheme://authority...: the text after the two
\* slashes up to the first slash, ? or #
AuthorityOf(input) ==
  Before(SliceFrom(input, Len(Before(input, SlashesOf(input))) + 2),
         SlashesOf(input) \cup {"?", "#"})

\* the text of the authority before its last at sign
UserinfoOf(authority) ==
  SubSeq(authority, 1, Len(authority) - Len(AfterLast(authority, "@")) - 1)

\* s with every at sign written %40
RECURSIVE EscapeAts(_)
EscapeAts(s) ==
  IF s = <<>> THEN <<>>
  ELSE (IF Head(s) = "@" THEN <<"%", "4", "0">> ELSE <<Head(s)>>) \o EscapeAts(Tail(s))

\* C27: when the authority of an input holds at signs, the host is parsed
\* from the text after the last of them, and all before it is the userinfo,
\* split into username and password at its first colon only, every earlier
\* at sign stored as %40; http://a@b:c@h/ gives a%40b, c and the host h.
C27_DeferredUserinfo ==
  /\ (/\ last.op = "new"
      /\ Len(last.arg) = 1
      /\ last.ret = "url"
      /\ IndexOf(AuthorityOf(last.arg[1]), "@") # -1) =>
       LET authority == AuthorityOf(last.arg[1])
           userinfo == EscapeAts(UserinfoOf(authority))
       IN  /\ url.username = Before(userinfo, {":"})
           /\ url.password = SliceFrom(userinfo, Len(Before(userinfo, {":"})) + 1)
           /\ url.host.payload = Before(AfterLast(authority, "@"), {":"})
  /\ (last.op = "new" /\ last.arg = <<In_ats>>) =>
       /\ url.username = <<"a", "%", "4", "0", "b">>
       /\ url.password = <<"c">>
       /\ url.host = HostObj(DOMAIN_OR_IPV4, <<"h">>)

\* new URL of http://a:b@c:d@h:81/ has the username a, the password b%40c:d,
\* the host h and the port 81
C27_Witness ==
  /\ last.op = "new"
  /\ last.arg = <<In_colons>>
  /\ url.username = <<"a">>
  /\ url.password = <<"b", "%", "4", "0", "c", ":", "d">>
  /\ url.host = HostObj(DOMAIN_OR_IPV4, <<"h">>)
  /\ url.port = 81

\* the text s holds an opening bracket with no closing bracket after it
InBrackets(s) ==
  \E i \in 1..Len(s) : s[i] = "[" /\ \A j \in (i + 1)..Len(s) : s[j] # "]"

\* the loop of parse is about to read the code point c in the host or the
\* hostname state (the file scheme under a state override goes to the file
\* host state instead)
HostReads(c) ==
  /\ parser.ret = "run"
  /\ LoopCondition(parser)
  /\ parser.state \in {HOST, HOSTNAME}
  /\ ~(Given(parser.so) /\ parser.url.scheme = S_file)
  /\ At(parser.input, parser.cursor) = c

\* C28: in the host and the hostname state a colon after an opening bracket
\* and before its closing bracket never ends the host: it is appended to the
\* buffer and the state stays; a colon outside brackets after a host that
\* parses starts the port; a host that starts with an opening bracket and
\* does not end with a closing one makes the parse fail.
C28_BracketFlag ==
  [][ /\ (HostReads(":") /\ InBrackets(parser.buffer)) =>
           /\ parser'.ret = "run"
           /\ parser'.state = parser.state
           /\ parser'.buffer = Append(parser.buffer, ":")
           /\ parser'.url = parser.url
      /\ (HostReads(":") /\ ~InBrackets(parser.buffer) /\ parser.buffer # <<>>
            /\ parseHost(parser.buffer, isSpecial(parser.url)) # HostFailure) =>
           /\ parser'.state = PORT
           /\ parser'.url.host = parseHost(parser.buffer, isSpecial(parser.url))
      /\ (/\ \E c \in {EOF, "/", "?", "#", ":"} : HostReads(c)
          /\ ~(HostReads(":") /\ InBrackets(parser.buffer))
          /\ parser.buffer # <<>>
          /\ Head(parser.buffer) = "["
          /\ parser.buffer[Len(parser.buffer)] # "]") =>
           /\ parser'.ret = "false"
           /\ parser'.url.host = parser.url.host
    ]_vars

\* the host state has appended the first colon of [::1] to the buffer
C28_Witness ==
  /\ parser.input = In_ipv6
  /\ parser.ret = "run"
  /\ parser.state = HOST
  /\ parser.buffer = <<"[", ":">>

\* the special schemes but file
HostSchemes == {S_ftp, S_gopher, S_http, S_https, S_ws, S_wss}

\* C29: in every reachable state of a URL object whose scheme is ftp, gopher,
\* http, https, ws or wss the host is neither null nor empty, and an
\* assignment of the empty string to host or hostname of such a URL fails
\* and changes nothing.
C29_SpecialHasHost ==
  /\ url.scheme \in HostSchemes => url.host.kind = "object"
  /\ (/\ last.op \in {"host", "hostname"}
      /\ last.arg = <<<<>>>>
      /\ before.url.scheme \in HostSchemes) =>
       (last.ret = "false" /\ url = before.url)

\* the double-dot path segments, in lower case
DoubleDots ==
  {<<".", ".">>, <<".", "%", "2", "e">>, <<"%", "2", "e", ".">>,
   <<"%", "2", "e", "%", "2", "e">>}

\* the path is the single segment of a normalized Windows drive letter
OnlyDrive(path) ==
  Len(path) = 1 /\ Len(path[1]) = 2 /\ path[1][1] \in ALPHA /\ path[1][2] = ":"

\* the loop of parse is about to end a double-dot segment in the path state
\* at the code point c
DoubleDotEnds(c) ==
  /\ parser.ret = "run"
  /\ LoopCondition(parser)
  /\ parser.state = PATH
  /\ At(parser.input, parser.cursor) = c
  /\ \/ c \in {EOF, "/"}
     \/ isSpecial(parser.url) /\ c = "\\"
     \/ ~Given(parser.so) /\ c \in {"?", "#"}
  /\ LowerStr(parser.buffer) \in DoubleDots

\* C30: shorten-path keeps the drive letter: once the path of a file URL is
\* the single normalized drive letter segment, no double-dot segment removes
\* it, and file:///C:/../../x has the path C:, x; in every other case a
\* double-dot removes the last segment of a path that has one and leaves an
\* empty path empty.
C30_ShortenPath ==
  /\ [][ /\ (/\ \E c \in {EOF, "/", "\\", "?", "#"} : DoubleDotEnds(c)
             /\ parser.url.scheme = S_file
             /\ OnlyDrive(parser.url.path)) =>
              /\ parser'.url.path # <<>>
              /\ Head(parser'.url.path) = Head(parser.url.path)
         /\ (/\ DoubleDotEnds("/")
             /\ ~(parser.url.scheme = S_file /\ OnlyDrive(parser.url.path))) =>
              parser'.url.path =
                SubSeq(parser.url.path, 1, Len(parser.url.path) - 1)
       ]_vars
  /\ [](parser.input = In_drive /\ parser.ret = "url" =>
          parser.url.path = <<<<"C", ":">>, <<"x">>>>)

\* the parse of file:///C:/../../x returned the path C:, x
C30_Witness ==
  /\ parser.input = In_drive
  /\ parser.ret = "url"
  /\ parser.url.path = <<<<"C", ":">>, <<"x">>>>

\* the loop of a fresh parse is about to end, in the path state of a file URL
\* whose path is empty, a segment that is a Windows drive letter
DriveLetterEnds ==
  /\ parser.ret = "run"
  /\ LoopCondition(parser)
  /\ parser.so = Undefined
  /\ parser.state = PATH
  /\ At(parser.input, parser.cursor) \in {EOF, "/", "\\", "?", "#"}
  /\ parser.url.scheme = S_file
  /\ parser.url.path = <<>>
  /\ Len(parser.buffer) = 2
  /\ parser.buffer[1] \in ALPHA
  /\ parser.buffer[2] \in {":", "|"}

\* C31: in a fresh parse of a file URL a first path segment that is a Windows
\* drive letter, written X: or X|, is stored as X:, and the host of the record
\* is then empty or null, a host parsed before it being reset to empty;
\* file:///C:/x gives the pathname /C:/x and the host the empty string.
C31_DriveLetter ==
  /\ [][ DriveLetterEnds =>
           /\ parser'.url.path = <<<<parser.buffer[1], ":">>>>
           /\ parser'.url.host =
                (IF parser.url.host.kind = "null" THEN NullHost ELSE EmptyHost)
       ]_vars
  /\ [](parser.input = In_file /\ parser.ret = "url" =>
          /\ get_pathname(parser.url) = <<"/", "C", ":", "/", "x">>
          /\ parser.url.host = EmptyHost
          /\ get_host(parser.url) = <<>>)

\* the parse of file://h/C|/x returned the path C:, x and the empty host
C31_Witness ==
  /\ parser.input = In_pipe
  /\ parser.ret = "url"
  /\ parser.url.path = <<<<"C", ":">>, <<"x">>>>
  /\ parser.url.host = EmptyHost

\* the input with a slash for every backslash before its first ? or #
RECURSIVE Slashed(_)
Slashed(s) ==
  IF s = <<>> \/ Head(s) \in {"?", "#"} THEN s
  ELSE <<IF Head(s) = "\\" THEN "/" ELSE Head(s)>> \o Slashed(Tail(s))

\* the base record of new URL(url, base) with the arguments arg
BaseOf(arg) == IF Len(arg) = 1 THEN <<>> ELSE <<parse(arg[2], <<>>).url>>

\* the runs r and s end alike: the same failure, or the same record
SameOutcome(r, s) ==
  (isSpecial(r.url) \/ isSpecial(s.url)) =>
    (r.ret = s.ret /\ (r.ret = "url" => r.url = s.url))

\* C32: for an input whose resulting scheme is special, given or inherited
\* from the base, the parse of the input and the parse of the input with a
\* slash for every backslash before the first ? or # end alike: the same
\* record field by field, or failure both.
C32_BackslashEquivalence ==
  (last.op = "new" /\ (Len(last.arg) = 2 => parse(last.arg[2], <<>>).ret = "url")) =>
    /\ SameOutcome(parse(last.arg[1], BaseOf(last.arg)),
                   parse(Slashed(last.arg[1]), BaseOf(last.arg)))
    /\ last.ret = "url" =>
         url = parse(last.arg[1], BaseOf(last.arg)).url

\* new URL of http:\\u@a\b\..\c?d\e has the username u, the host a, the path
\* c and the query d\e
C32_Witness ==
  /\ last.op = "new"
  /\ last.arg = <<In_back>>
  /\ last.ret = "url"
  /\ url.username = <<"u">>
  /\ url.host = HostObj(DOMAIN_OR_IPV4, <<"a">>)
  /\ url.path = <<<<"c">>>>
  /\ url.query = <<"d", "\\", "e">>

\* C33: a file URL parsed with a host that parses to the domain localhost has
\* the empty host, so that file://localhost/x and file:///x give equal records.
C33_FileLocalhost ==
  (last.op = "new" /\ last.arg = <<In_localhost>>) =>
    /\ last.ret = "url"
    /\ url.host = EmptyHost
    /\ url = construct(In_filex, <<>>).url

\* the input has no scheme: it does not start with a letter followed by
\* letters, digits, +, - or . up to a colon
NoScheme(input) ==
  ~(/\ input # <<>>
    /\ Head(input) \in ALPHA
    /\ \E i \in 2..Len(input) :
         input[i] = ":" /\ \A j \in 2..(i - 1) : input[j] \in ALPHANUMERIC)

\* the input has no authority: it does not start with two slashes, a
\* backslash counting as a slash when special
NoAuthority(input, special) ==
  ~(/\ Len(input) >= 2
    /\ \A i \in 1..2 : input[i] = "/" \/ (special /\ input[i] = "\\"))

\* the query an input without scheme writes itself: the text between its
\* first ? and its first #, or null when no ? comes before the first #
OwnQuery(input) ==
  IF IndexOf(Before(input, {"#"}), "?") = -1 THEN Null
  ELSE EscapeQueryAll(Before(SliceFrom(input, IndexOf(input, "?") + 1), {"#"}))

\* the fragment an input writes itself: the text after its first #, or null
OwnFragment(input) ==
  IF IndexOf(input, "#") = -1 THEN Null
  ELSE EscapeAll(SliceFrom(input, IndexOf(input, "#") + 1))

\* the record u of the input resolved against the base record b
Resolved(input, b, u) ==
  /\ u.scheme = b.scheme
  /\ u.username = b.username
  /\ u.password = b.password
  /\ u.host = b.host
  /\ u.port = b.port
  /\ (input = <<>> \/ Head(input) \in {"?", "#"}) => u.path = b.path
  /\ u.query = (IF input = <<>> \/ Head(input) = "#" THEN b.query ELSE OwnQuery(input))
  /\ u.fragment = OwnFragment(input)

\* C34: against a base that is not a file URL and can be a base, an input
\* with no scheme and no authority inherits the username, password, host and
\* port of the base; it inherits the path of the base when it is empty or
\* starts with ? or #, and the query of the base only when it is empty or
\* starts with #; the fragment of the base is never inherited.
C34_RelativeResolution ==
  (/\ last.op = "new"
   /\ Len(last.arg) = 2
   /\ parse(last.arg[2], <<>>).ret = "url"
   /\ parse(last.arg[2], <<>>).url.scheme # S_file
   /\ ~parse(last.arg[2], <<>>).url.cannotBeABaseURL
   /\ NoScheme(last.arg[1])
   /\ NoAuthority(last.arg[1], isSpecial(parse(last.arg[2], <<>>).url))) =>
    (last.ret = "url" /\ Resolved(last.arg[1], parse(last.arg[2], <<>>).url, url))

\* new URL of ?y with the base http://u:p@a:81/p/q?x=1#f has the authority and
\* the path of the base, the query y and no fragment
C34_Witness ==
  /\ last.op = "new"
  /\ last.arg = <<In_relquery, In_fullbase>>
  /\ url.username = <<"u">>
  /\ url.password = <<"p">>
  /\ url.host = HostObj(DOMAIN_OR_IPV4, <<"a">>)
  /\ url.port = 81
  /\ url.path = <<<<"p">>, <<"q">>>>
  /\ url.query = <<"y">>
  /\ url.fragment = Null

\* v is a host name, a colon and digits
ColonDigits(v) ==
  /\ IndexOf(v, ":") >= 1
  /\ IndexOf(v, ":") + 1 < Len(v)
  /\ \A i \in (IndexOf(v, ":") + 2)..Len(v) : v[i] \in DIGIT

PathOnly ==
  /\ url.scheme = before.url.scheme
  /\ url.username = before.url.username
  /\ url.password = before.url.password
  /\ url.port = before.url.port
  /\ url.query = before.url.query
  /\ url.fragment = before.url.fragment
  /\ url.cannotBeABaseURL = before.url.cannotBeABaseURL
  /\ list = before.list
  /\ ~url.cannotBeABaseURL =>
       \A i \in 1..Len(url.path) : \A j \in 1..Len(url.path[i]) :
         url.path[i][j] \notin {"?", "#"}

\* the last operation put a drive letter first in the path of a file URL that
\* had a host
DriveOverHost ==
  /\ url.scheme = S_file
  /\ before.url.host.kind = "object"
  /\ url.path # <<>>
  /\ isNormalizedWindowsDriveLetter(Head(url.path))

C37_CopyIndependent ==
  (copy.made /\ last.op \in Mutations) =>
    /\ last.arg[1] = "c" => (list = before.list /\ url = before.url)
    /\ last.arg[1] = "p" => Deref(copy.heap, copy.c) = copy.was

\* the href of the record u parses with no base, and the result serializes
\* to the same href
Stable(u) ==
  /\ parse(href(u), <<>>).ret = "url"
  /\ href(parse(href(u), <<>>).url) = href(u)

\* C38: in every state of a URL object reachable by construction followed by
\* attribute assignments and mutations of searchParams, parsing u.href with no
\* base succeeds and serializing the result gives u.href again.
C38_HrefStable ==
  ~(last.op = "new" /\ last.ret = "throw") => Stable(url)

\* the string s is built from letters, digits, space, &, = and +
Plain(s) ==
  \A i \in 1..Len(s) : s[i] \in ALPHA \cup DIGIT \cup {" ", "&", "=", "+"}

\* C39: for every list of pairs whose names and values are built from
\* letters, digits, space, &, = and +, parseUrlEncoded(serializeUrlEncoded(list))
\* is the list: the same pairs in the same order.
C39_RoundTrip ==
  (\A i \in 1..Len(list) : Plain(list[i][1]) /\ Plain(list[i][2])) =>
    parseUrlEncoded(serializeUrlEncoded(list)) = list

\* C40: at the start of every iteration of the loop of parse the cursor is
\* between 0 and the length of the input, where the length of the input reads
\* as EOF; no rewind leaves the cursor of the next iteration below 0 and no
\* skip leaves it past the length of the input, so that the cursor is one past
\* the length of the input only when the loop has read EOF and ends.
C40_CursorBounds ==
  (parser.ret = "run") =>
    /\ 0 <= parser.cursor
    /\ parser.cursor <= Len(parser.input) + 1
    /\ LoopCondition(parser) <=> parser.cursor <= Len(parser.input)
    /\ parser.cursor >= Len(parser.input) => At(parser.input, parser.cursor) = EOF

\* the authority state has rewound the cursor of http://a@b:c@h/ to the @
\* before the host, and the host state starts after it with an empty buffer
C40_Witness ==
  /\ parser.ret = "run"
  /\ parser.input = In_ats
  /\ parser.state = HOST
  /\ parser.buffer = <<>>
  /\ parser.cursor = 13
  /\ At(parser.input, parser.cursor - 1) = "@"

\* C7: in every reachable state of a URL object, if the cannot-be-a-base flag
\* of the record is true then its host is null and its path has exactly one
\* element.
C7_CannotBeABase ==
  url.cannotBeABaseURL => (url.host.kind = "null" /\ Len(url.path) = 1)

\* C8: in every reachable state of a URL object, a null host implies a null
\* port, an empty username and an empty password.
C8_HostNull ==
  url.host.kind = "null" =>
    (url.port = NullPort /\ url.username = <<>> /\ url.password = <<>>)

\* C9: in every reachable state of a URL object whose scheme is special the
\* stored port is not the default port of the scheme (ftp 21, file 0, gopher
\* 70, http 80, https 443, ws 80, wss 443).
C9_PortDefault ==
  /\ url.scheme = S_ftp => url.port # 21
  /\ url.scheme = S_file => url.port # 0
  /\ url.scheme = S_gopher => url.port # 70
  /\ url.scheme = S_http => url.port # 80
  /\ url.scheme = S_https => url.port # 443
  /\ url.scheme = S_ws => url.port # 80
  /\ url.scheme = S_wss => url.port # 443

\* C10: a parse, or a host or port assignment, whose port digits denote a value
\* greater than 65535 returns failure, and in every reachable state of a URL
\* object the stored port is null or an integer of 0..65535.
C10_PortRange ==
  /\ last.port > 65535 => last.ret \in {"false", "throw"}
  /\ url.port = NullPort \/ url.port \in 0..65535

\* port was assigned 99999 on a record that may have a port: the parse
\* returned failure and the port is as it was
C10_Witness ==
  /\ last.op = "port"
  /\ last.arg = <<Port_big>>
  /\ last.port = 99999
  /\ last.ret = "false"
  /\ url.port = before.url.port

=============================================================================
